---- MODULE Spec2Model ----
(***************************************************************************)
(* Cardano Forge Manager: lease-based leader election, credential          *)
(* reconciliation and the control loop of src/src/forgemanager.py.         *)
(*                                                                         *)
(* Time is counted in units of SLEEP_INTERVAL (5 s): one control-loop      *)
(* sleep lasts one unit, LEASE_DURATION (15 s) is three units.  API calls  *)
(* and local file operations take no time; time passes only while every    *)
(* live replica is blocked in a sleep or in wait_for_socket.               *)
(* File modification times are counted in half seconds.                    *)
(***************************************************************************)
EXTENDS Integers, Sequences, FiniteSets, TLC

\* ------------------------------------------------------------------------
\* Bounds of the model
\* ------------------------------------------------------------------------
MaxTime == 4
MaxRotations == 1
MaxFailures == 4
MaxTail == 2
MaxPolTime == 1
MaxVersion == 5

\* ------------------------------------------------------------------------
\* Program constants
\* ------------------------------------------------------------------------
LEASE_DURATION == 3
HEALTH_CHECK_INTERVAL == 6
SLEEP_INTERVAL == 1
max_retries == 3
OneSecond == 2
OneMiB == 1048576
ErrorSleepCap == 6

Replicas == {"a", "b"}
NoHolder == ""
Files == {"kes", "vrf", "opcert"}

\* File contents are abstract identifiers; 1 and 2 are two different small
\* files of the same size, 3 is a file of 1 MiB.
Contents == {1, 2, 3}
AbsentFile == [exists |-> FALSE, content |-> 0, mtime |-> 0]

VARIABLES
    now,                              \* wall clock
    lease,                            \* the Lease object in the store
    crd,                              \* status of the CardanoLeader object
    pc,                               \* position of each replica's main()
    socket,                           \* NODE_SOCKET of each replica's node
    gate,                             \* cluster_manager.should_allow_forging()
    node_startup_phase,
    startup_credentials_provisioned,
    current_leadership_state,
    is_leader,                        \* main(): result of try_acquire_leader
    attempt,                          \* try_acquire_leader: loop index
    snap,                             \* try_acquire_leader: lease as read
    slept,                            \* time.sleep(): units slept so far
    src,                              \* SOURCE_* files of each replica
    tgt,                              \* TARGET_* files of each replica
    should_have,                      \* ensure_secrets: should_have_credentials
    ev,                               \* what the current iteration did
    rec,                              \* the reconciler's latest calls
    pol,                              \* the CardanoForgeCluster object in the store
    cache,                            \* ClusterForgeManager._current_cluster_crd
    health_failures,                  \* _consecutive_health_failures
    last_health_check,                \* _last_health_check
    enabled,                          \* ClusterForgeManager.enabled
    unseen,                           \* watch events not yet delivered
    polw,                             \* the latest patch of the policy status
    out,                              \* the latest result of a pure function
    tenancy,                          \* (network, pool id, region) of two tenants
    frame,                            \* should_allow_forging: its locals
    health_status,                    \* status.healthStatus of the stored object
    shutdown_event,                   \* ClusterForgeManager._shutdown_event
    watch_thread,                     \* position of _watch_cluster_crd
    health_thread,                    \* position of _health_check_loop
    copy_pc,                          \* position of copy_secret
    dest                              \* the file at copy_secret's dest path

\* The state of cluster_manager.py.
mgrVars == <<frame, health_status, shutdown_event, watch_thread, health_thread>>
copyVars == <<copy_pc, dest>>
polVars == <<pol, cache, health_failures, last_health_check, enabled, unseen, polw, out, tenancy,
             mgrVars, copyVars>>

vars == <<now, lease, crd, pc, socket, gate, node_startup_phase,
          startup_credentials_provisioned, current_leadership_state,
          is_leader, attempt, snap, slept, src, tgt, should_have, ev, rec,
          polVars>>

\* ------------------------------------------------------------------------
\* Pure functions
\* ------------------------------------------------------------------------
Abs(x) == IF x < 0 THEN -x ELSE x

SizeOf(c) == IF c = 3 THEN OneMiB ELSE IF c = 0 THEN 0 ELSE 32

files_identical(f1, f2) ==
    IF ~(f1.exists /\ f2.exists) THEN FALSE
    ELSE IF SizeOf(f1.content) # SizeOf(f2.content) THEN FALSE
    ELSE IF Abs(f1.mtime - f2.mtime) < OneSecond THEN TRUE
    ELSE IF SizeOf(f1.content) < OneMiB THEN f1.content = f2.content
    ELSE FALSE

\* copy_secret: result of copying s over d; ok is the return value.
\* fails: the copy raises (permission error) and leaves d as it was.
copy_secret_unstamped(s, d, fails) ==
    IF ~s.exists THEN [file |-> d, ok |-> FALSE]
    ELSE IF fails THEN [file |-> d, ok |-> FALSE]
    ELSE [file |-> [exists |-> TRUE, content |-> s.content,
                    mtime |-> s.mtime + OneSecond],
          ok |-> TRUE]

copy_secret(s, d, fails) ==
    IF ~s.exists THEN [file |-> d, ok |-> FALSE]
    ELSE IF fails THEN [file |-> d, ok |-> FALSE]
    ELSE [file |-> [exists |-> TRUE, content |-> s.content, mtime |-> s.mtime],
          ok |-> TRUE]

\* remove_file: ok is the return value; removed tells whether a file went.
remove_file_keeps(d, fails) == [file |-> d, ok |-> TRUE, removed |-> FALSE]

remove_file(d, fails) ==
    IF d.exists
    THEN IF fails THEN [file |-> d, ok |-> FALSE, removed |-> FALSE]
         ELSE [file |-> AbsentFile, ok |-> TRUE, removed |-> TRUE]
    ELSE [file |-> d, ok |-> TRUE, removed |-> FALSE]

\* ensure_secrets (lines 619-653): the new target files, the return value
\* credentials_changed, should_have_credentials, and whether it sends the
\* SIGHUP itself.  failing is the set of files whose copy or removal raises.
ensure_secrets_signals_unchanged(leader, send_sighup, allowed, S, T, failing) ==
    LET should_have_credentials == leader /\ allowed IN
    [tgt |-> [f \in Files |->
                IF should_have_credentials
                THEN IF ~T[f].exists \/ ~files_identical(S[f], T[f])
                     THEN copy_secret(S[f], T[f], f \in failing).file
                     ELSE T[f]
                ELSE remove_file(T[f], f \in failing).file],
     changed |-> \E f \in Files :
                IF should_have_credentials
                THEN (~T[f].exists \/ ~files_identical(S[f], T[f]))
                     /\ copy_secret(S[f], T[f], f \in failing).ok
                ELSE T[f].exists /\ remove_file(T[f], f \in failing).ok,
     desired |-> should_have_credentials,
     sighup |-> send_sighup]

ensure_secrets(leader, send_sighup, allowed, S, T, failing) ==
    LET should_have_credentials == leader /\ allowed
        credentials_changed ==
            \E f \in Files :
                IF should_have_credentials
                THEN (~T[f].exists \/ ~files_identical(S[f], T[f]))
                     /\ copy_secret(S[f], T[f], f \in failing).ok
                ELSE T[f].exists /\ remove_file(T[f], f \in failing).ok
    IN
    [tgt |-> [f \in Files |->
                IF should_have_credentials
                THEN IF ~T[f].exists \/ ~files_identical(S[f], T[f])
                     THEN copy_secret(S[f], T[f], f \in failing).file
                     ELSE T[f]
                ELSE remove_file(T[f], f \in failing).file],
     changed |-> credentials_changed,
     desired |-> should_have_credentials,
     sighup |-> credentials_changed /\ send_sighup]

\* provision_startup_credentials: copies every missing target; ok is the
\* return value (and the new startup_credentials_provisioned when TRUE).
provision_startup_credentials_skipped(S, T, failing) ==
    [tgt |-> T, ok |-> TRUE]

provision_startup_credentials(S, T, failing) ==
    [tgt |-> [f \in Files |->
                IF ~T[f].exists
                THEN copy_secret(S[f], T[f], f \in failing).file
                ELSE T[f]],
     ok |-> \A f \in Files :
                T[f].exists \/ copy_secret(S[f], T[f], f \in failing).ok]

\* check_startup_credentials_ready: what GET /startup-status reports (200).
check_startup_credentials_ready(flag, T) ==
    \/ flag
    \/ \A f \in Files : T[f].exists /\ SizeOf(T[f].content) # 0

\* try_acquire_leader, lines 875-893: may the lease that was read be taken?
Expired(l, t) == l.renewTime + LEASE_DURATION < t

can_acquire_unexpired(l, self, t) == TRUE

can_acquire_own_only(l, self, t) == l.holder = self \/ l.holder = NoHolder

can_acquire(l, self, t) ==
    \/ l.holder = self
    \/ Expired(l, t)
    \/ l.holder = NoHolder

\* try_acquire_leader, lines 896-903: the record that is patched.
NewTransitions_every_patch(l, self) == l.transitions + 1

NewTransitions(l, self) ==
    IF l.holder # self /\ l.holder # NoHolder
    THEN l.transitions + 1
    ELSE l.transitions

\* ------------------------------------------------------------------------
\* The policy object (CardanoForgeCluster) of src/src/cluster_manager.py
\* ------------------------------------------------------------------------
ForgeStates == {"Enabled", "Disabled", "Priority-based"}
Priorities == {1, 10}
Thresholds == {2, 3, 4}

\* override.expiresAt as the text stored in the object: an RFC 3339 instant,
\* an ISO timestamp without offset, a text that is no timestamp, or no text.
ExpiryKinds == {"rfc3339", "naive", "garbage", "absent"}
NoExpiry == [kind |-> "absent", t |-> 0]

NoOverride ==
    [enabled |-> FALSE, expiresAt |-> NoExpiry,
     hasForceState |-> FALSE, forceState |-> "",
     hasForcePriority |-> FALSE, forcePriority |-> 0]

Expiries ==
    {NoExpiry} \cup [kind : ExpiryKinds \ {"absent"}, t : 0..MaxTime]

Overrides ==
    {NoOverride}
    \cup { [enabled |-> en, expiresAt |-> e,
            hasForceState |-> (fs # ""), forceState |-> fs,
            hasForcePriority |-> (fp # 0), forcePriority |-> fp] :
           en \in BOOLEAN, e \in Expiries,
           fs \in ForgeStates \cup {""}, fp \in Priorities \cup {0} }

PolicySpecs ==
    [forgeState : ForgeStates, priority : Priorities,
     override : Overrides, failureThreshold : Thresholds]

health_threshold == 3
health_penalty == 100
minor_penalty == 10

\* datetime.fromisoformat(expires_at.replace("Z", "+00:00")) compared with
\* datetime.now(timezone.utc): "aware" with the instant, or the exception
\* raised by the parse ("ValueError") or by the comparison ("TypeError").
parse_expires_at(e) ==
    IF e.kind = "rfc3339" THEN [ok |-> TRUE, t |-> e.t, error |-> ""]
    ELSE IF e.kind = "naive" THEN [ok |-> FALSE, t |-> e.t, error |-> "TypeError"]
    ELSE [ok |-> FALSE, t |-> 0, error |-> "ValueError"]

override_never_active(ov, t) == FALSE

override_active(ov, t) ==
    /\ ov.enabled
    /\ ov.expiresAt.kind # "absent"
    /\ parse_expires_at(ov.expiresAt).ok
    /\ ~(t > parse_expires_at(ov.expiresAt).t)

\* _calculate_effective_state_and_priority(forge_state, base_priority) with
\* ov the override it reads from the cache, the health failure counter and
\* the current time.
effective_state_and_priority(forge_state, base_priority, ov, failures, t) ==
    IF override_active(ov, t)
    THEN [state |-> IF ov.hasForceState
                    THEN ov.forceState ELSE forge_state,
          priority |-> IF ov.hasForcePriority
                       THEN ov.forcePriority ELSE base_priority,
          reason |-> IF ov.hasForceState \/ ov.hasForcePriority
                     THEN "manual_override" ELSE "base_configuration"]
    ELSE IF forge_state = "Priority-based"
    THEN IF failures >= health_threshold
         THEN [state |-> forge_state,
               priority |-> base_priority + health_penalty,
               reason |-> "health_degraded"]
         ELSE IF failures > 0
         THEN [state |-> forge_state,
               priority |-> base_priority + minor_penalty,
               reason |-> "health_intermittent"]
         ELSE [state |-> forge_state, priority |-> base_priority,
               reason |-> "healthy_operation"]
    ELSE [state |-> forge_state, priority |-> base_priority,
          reason |-> IF forge_state = "Disabled"
                     THEN "cluster_disabled" ELSE "cluster_enabled"]

\* The same for a caller that has read forgeState and priority from the
\* spec ps, when the cache still holds ps.
calculate_effective_state_and_priority(ps, failures, t) ==
    effective_state_and_priority(ps.forgeState, ps.priority, ps.override,
                                 failures, t)

\* A cached policy object; NoCache is _current_cluster_crd = None.
NoStatus ==
    [activeLeader |-> "", forgingEnabled |-> FALSE, effectiveState |-> "",
     effectivePriority |-> 0, reason |-> ""]
DefaultSpec ==
    [forgeState |-> "Priority-based", priority |-> 10,
     override |-> NoOverride, failureThreshold |-> 3]
NoCache == [present |-> FALSE, spec |-> DefaultSpec, status |-> NoStatus]

should_allow_forging_by_priority(on, c, failures, t) ==
    IF ~on THEN TRUE
    ELSE IF ~c.present THEN TRUE
    ELSE LET eff == calculate_effective_state_and_priority(c.spec, failures, t)
         IN  /\ eff.state # "Disabled"
             /\ ~(eff.state = "Priority-based" /\ eff.priority > 10)

\* ClusterForgeManager.should_allow_forging of a replica whose enabled flag
\* is on, whose cache is c and whose failure counter is failures.
should_allow_forging(on, c, failures, t) ==
    IF ~on THEN TRUE
    ELSE IF ~c.present THEN TRUE
    ELSE calculate_effective_state_and_priority(c.spec, failures, t).state
             # "Disabled"

\* _build_comprehensive_status_update(pod_name, is_leader): the fields the
\* patch sets (healthStatus, which no decision reads, is left out).
build_comprehensive_status_update(c, failures, t, pod_name, leader) ==
    LET eff == calculate_effective_state_and_priority(c.spec, failures, t)
    IN  [activeLeader |-> IF leader THEN pod_name ELSE "",
         forgingEnabled |-> leader /\ eff.state \in {"Enabled", "Priority-based"},
         effectiveState |-> eff.state,
         effectivePriority |-> eff.priority,
         reason |-> eff.reason]

\* ------------------------------------------------------------------------
\* State
\* ------------------------------------------------------------------------
NoLease == [exists |-> FALSE, holder |-> NoHolder, renewTime |-> 0,
            transitions |-> 0, rv |-> 0]

\* What one loop iteration did so far: the forfeit, the credential changes
\* and SIGHUPs, and the patch requests of its try_acquire_leader call (all
\* of them, those answered 409, and the store calls that failed otherwise),
\* the exceptions that reached main(), the termination signal, and what
\* try_acquire_leader returned ("T", "F", or "" when it was not called),
\* and whether a status call of update_leader_status failed.
EvNone == [forfeit |-> FALSE, ffchg |-> FALSE, nchg |-> 0, nsig |-> 0,
           npatch |-> 0, nconf |-> 0, nerr |-> 0, nexc |-> 0, sig |-> FALSE,
           ret |-> "", sfail |-> FALSE]

RecNone == [n |-> 0, x |-> FALSE, desired |-> FALSE, err |-> FALSE,
            changed |-> FALSE, first_changed |-> FALSE, touched |-> FALSE,
            failing |-> {}, rotations |-> 0]

SourceFiles == [f \in Files |-> [exists |-> TRUE, content |-> 1, mtime |-> 0]]
NoFiles == [f \in Files |-> AbsentFile]

\* _last_health_check = None
NoCheck == -1
NoWrite == [writer |-> "", task |-> "", n |-> 0]
NoOut == [op |-> "", allow |-> TRUE, status |-> NoStatus]
NoTenancy == <<>>

\* No evaluation of the gate is in progress.
NoFrame ==
    [pc |-> "idle", forge_state |-> "", base_priority |-> 0,
     first |-> DefaultSpec, second |-> DefaultSpec]

\* The stored status has no healthStatus.
NoHealthStatus ==
    [present |-> FALSE, healthy |-> TRUE, consecutiveFailures |-> 0,
     lastProbeTime |-> NoCheck, message |-> ""]

\* The threads of the cluster manager have not been started.
ManagerIdle ==
    /\ frame = NoFrame
    /\ health_status = NoHealthStatus
    /\ shutdown_event = [r \in Replicas |-> FALSE]
    /\ watch_thread = [r \in Replicas |-> "off"]
    /\ health_thread = [r \in Replicas |-> "off"]

\* No copy_secret is in progress and nothing is at the dest paths.
NoDest == [exists |-> FALSE, bytes |-> "", mode |-> 0]
CopyIdle ==
    /\ copy_pc = [i |-> 0, step |-> "idle"]
    /\ dest = [f \in Files |-> NoDest]

\* ENABLE_CLUSTER_MANAGEMENT=false: the cluster manager never starts.  The
\* target files are described by the specification that uses this.
ClusterManagementOffExceptCopy ==
    /\ pol = NoCache
    /\ cache = [r \in Replicas |-> NoCache]
    /\ health_failures = [r \in Replicas |-> 0]
    /\ last_health_check = [r \in Replicas |-> NoCheck]
    /\ enabled = [r \in Replicas |-> FALSE]
    /\ unseen = [r \in Replicas |-> FALSE]
    /\ polw = NoWrite
    /\ out = NoOut
    /\ tenancy = NoTenancy
    /\ ManagerIdle

\* The same, with no copy_secret in progress.
ClusterManagementOff ==
    /\ ClusterManagementOffExceptCopy
    /\ CopyIdle

\* The globals of forgemanager.py at import, the store empty.
ProcessInit ==
    /\ now = 0
    /\ lease = NoLease
    /\ crd = [leaderPod |-> NoHolder, forgingEnabled |-> FALSE]
    /\ pc = [r \in Replicas |-> "boot"]
    /\ socket = [r \in Replicas |-> "absent"]
    /\ gate = [r \in Replicas |-> TRUE]
    /\ node_startup_phase = [r \in Replicas |-> TRUE]
    /\ startup_credentials_provisioned = [r \in Replicas |-> FALSE]
    /\ current_leadership_state = [r \in Replicas |-> FALSE]
    /\ is_leader = [r \in Replicas |-> FALSE]
    /\ attempt = [r \in Replicas |-> 0]
    /\ snap = [r \in Replicas |-> NoLease]
    /\ slept = [r \in Replicas |-> 0]
    /\ src = [r \in Replicas |-> SourceFiles]
    /\ tgt = [r \in Replicas |-> NoFiles]
    /\ should_have = [r \in Replicas |-> FALSE]
    /\ ev = [r \in Replicas |-> EvNone]
    /\ rec = RecNone

Init == ProcessInit /\ ClusterManagementOff

\* ------------------------------------------------------------------------
\* The environment: the clock, the node's socket, the policy gate, crashes
\* ------------------------------------------------------------------------
Blocked(r) == pc[r] \in {"sleep", "wait", "dead"}

Tick ==
    /\ now < MaxTime
    /\ \A r \in Replicas :
          Blocked(r) /\ (pc[r] = "sleep" => slept[r] < SLEEP_INTERVAL)
    /\ now' = now + 1
    /\ slept' = [r \in Replicas |->
                    IF pc[r] = "sleep" THEN slept[r] + 1
                    ELSE IF pc[r] = "dead" THEN SLEEP_INTERVAL
                    ELSE slept[r]]
    /\ UNCHANGED <<polVars, rec, lease, crd, pc, socket, gate, node_startup_phase,
                   startup_credentials_provisioned, current_leadership_state,
                   is_leader, attempt, snap, src, tgt, should_have, ev>>

SocketUp(r) ==
    /\ socket[r] = "absent"
    /\ pc[r] # "dead"
    /\ socket' = [socket EXCEPT ![r] = "socket"]
    /\ UNCHANGED <<polVars, rec, now, lease, crd, pc, gate, node_startup_phase,
                   startup_credentials_provisioned, current_leadership_state,
                   is_leader, attempt, snap, slept, src, tgt, should_have, ev>>

SocketDown(r) ==
    /\ socket[r] = "socket"
    /\ pc[r] # "dead"
    /\ socket' = [socket EXCEPT ![r] = "absent"]
    /\ UNCHANGED <<polVars, rec, now, lease, crd, pc, gate, node_startup_phase,
                   startup_credentials_provisioned, current_leadership_state,
                   is_leader, attempt, snap, slept, src, tgt, should_have, ev>>

GateFlip(r) ==
    /\ pc[r] # "dead"
    /\ gate' = [gate EXCEPT ![r] = ~gate[r]]
    /\ UNCHANGED <<polVars, rec, now, lease, crd, pc, socket, node_startup_phase,
                   startup_credentials_provisioned, current_leadership_state,
                   is_leader, attempt, snap, slept, src, tgt, should_have, ev>>

\* The process of r dies without running the shutdown path: its memory is
\* gone, the lease, the published status and the files stay as they are.
Crash(r) ==
    /\ pc[r] # "dead"
    /\ pc' = [pc EXCEPT ![r] = "dead"]
    /\ node_startup_phase' = [node_startup_phase EXCEPT ![r] = TRUE]
    /\ startup_credentials_provisioned' =
          [startup_credentials_provisioned EXCEPT ![r] = FALSE]
    /\ current_leadership_state' =
          [current_leadership_state EXCEPT ![r] = FALSE]
    /\ is_leader' = [is_leader EXCEPT ![r] = FALSE]
    /\ attempt' = [attempt EXCEPT ![r] = 0]
    /\ snap' = [snap EXCEPT ![r] = NoLease]
    /\ slept' = [slept EXCEPT ![r] = 0]
    /\ should_have' = [should_have EXCEPT ![r] = FALSE]
    /\ ev' = [ev EXCEPT ![r] = EvNone]
    /\ UNCHANGED <<polVars, rec, now, lease, crd, socket, gate, src, tgt>>

\* The container of r is started again under the same POD_NAME, a unit of
\* time or more after it died: main() begins with the module's initial
\* globals.
Restart(r) ==
    /\ pc[r] = "dead"
    /\ slept[r] >= SLEEP_INTERVAL
    /\ pc' = [pc EXCEPT ![r] = "boot"]
    /\ slept' = [slept EXCEPT ![r] = 0]
    /\ UNCHANGED <<polVars, rec, now, lease, crd, socket, gate, node_startup_phase,
                   startup_credentials_provisioned, current_leadership_state,
                   is_leader, attempt, snap, src, tgt, should_have, ev>>

\* ------------------------------------------------------------------------
\* main(): before the loop (lines 1135-1149)
\* ------------------------------------------------------------------------
Boot(r) ==
    /\ pc[r] = "boot"
    /\ LET P == provision_startup_credentials(src[r], tgt[r], {}) IN
       /\ tgt' = [tgt EXCEPT ![r] = P.tgt]
       /\ startup_credentials_provisioned' =
             [startup_credentials_provisioned EXCEPT
                 ![r] = IF P.ok THEN TRUE ELSE @]
    /\ pc' = [pc EXCEPT ![r] = "wait"]
    /\ UNCHANGED <<polVars, rec, now, lease, crd, socket, gate, node_startup_phase,
                   current_leadership_state, is_leader, attempt, snap,
                   slept, src, should_have, ev>>

\* wait_for_socket returns (socket found or timeout), then the first
\* is_node_in_startup_phase(): the phase is still the initial one.
WaitForSocket(r) ==
    /\ pc[r] = "wait"
    /\ node_startup_phase' =
          [node_startup_phase EXCEPT
              ![r] = IF socket[r] = "socket" THEN FALSE ELSE @]
    /\ pc' = [pc EXCEPT
                 ![r] = IF node_startup_phase'[r] THEN "loop" ELSE "cleanup0"]
    /\ UNCHANGED <<polVars, rec, now, lease, crd, socket, gate,
                   startup_credentials_provisioned, current_leadership_state,
                   is_leader, attempt, snap, slept, src, tgt, should_have, ev>>

\* startup_cleanup (lines 683-706): one read of the lease, then a local
\* ensure_secrets(is_leader=False, send_sighup=False) and its own SIGHUP.
startup_cleanup_removes_unless_own(l, self) == l.holder # self

startup_cleanup_removes(l, self) ==
    l.exists /\ l.holder # NoHolder /\ l.holder # self

Cleanup(r) ==
    /\ pc[r] \in {"cleanup0", "cleanup"}
    /\ IF startup_cleanup_removes(lease, r)
       THEN LET E == ensure_secrets(FALSE, FALSE, gate[r], src[r], tgt[r], {})
                cleanup_performed == E.changed
            IN
            /\ tgt' = [tgt EXCEPT ![r] = E.tgt]
            /\ should_have' = [should_have EXCEPT ![r] = E.desired]
            /\ ev' = [ev EXCEPT
                         ![r].nchg = IF E.changed THEN @ + 1 ELSE @,
                         ![r].nsig = IF cleanup_performed THEN @ + 1 ELSE @]
       ELSE UNCHANGED <<tgt, should_have, ev>>
    /\ pc' = [pc EXCEPT ![r] = IF pc[r] = "cleanup0" THEN "loop" ELSE "ta_read"]
    /\ UNCHANGED <<polVars, rec, now, lease, crd, socket, gate, node_startup_phase,
                   startup_credentials_provisioned, current_leadership_state,
                   is_leader, attempt, snap, slept, src>>

\* ------------------------------------------------------------------------
\* main(): one loop iteration (lines 1154-1208)
\* ------------------------------------------------------------------------
\* is_node_in_startup_phase (lines 260-308): the new phase, and whether
\* forfeit_leadership is called.
socket_lost(sock, phase) == sock = "absent" /\ ~phase

is_node_in_startup_phase_any_path(sock, phase) == sock = "absent"

is_node_in_startup_phase(sock, phase) ==
    IF sock = "absent" THEN TRUE
    ELSE IF phase THEN sock # "socket"
    ELSE phase

\* The startup track of the loop (lines 1159-1171) on target files T with
\* the flag value flag: provision when the flag is not set, then sleep.
StartupTrack_then_elects(r, T, flag) ==
    /\ tgt' = [tgt EXCEPT ![r] = T]
    /\ startup_credentials_provisioned' =
          [startup_credentials_provisioned EXCEPT ![r] = flag]
    /\ pc' = [pc EXCEPT ![r] = "ta_read"]

StartupTrack(r, T, flag) ==
    /\ IF ~flag
       THEN LET P == provision_startup_credentials(src[r], T, {}) IN
            /\ tgt' = [tgt EXCEPT ![r] = P.tgt]
            /\ startup_credentials_provisioned' =
                  [startup_credentials_provisioned EXCEPT ![r] = P.ok]
       ELSE /\ tgt' = [tgt EXCEPT ![r] = T]
            /\ startup_credentials_provisioned' =
                  [startup_credentials_provisioned EXCEPT ![r] = flag]
    /\ pc' = [pc EXCEPT ![r] = "sleep"]

\* The loop finds the node running (lines 1173-1189).
RunningTrack(r) ==
    /\ IF startup_credentials_provisioned[r]
       THEN /\ startup_credentials_provisioned' =
                  [startup_credentials_provisioned EXCEPT ![r] = FALSE]
            /\ pc' = [pc EXCEPT ![r] = "cleanup"]
       ELSE /\ pc' = [pc EXCEPT ![r] = "ta_read"]
            /\ UNCHANGED startup_credentials_provisioned
    /\ UNCHANGED tgt

\* The probe at the top of an iteration.  When the socket went away while
\* the node was running, forfeit_leadership runs first (lines 346-382):
\* belief cleared, ensure_secrets(False, send_sighup=False), read of the
\* published status; the status patch is a later step.
Probe(r) ==
    /\ pc[r] = "loop"
    /\ attempt' = [attempt EXCEPT ![r] = 0]
    /\ IF socket_lost(socket[r], node_startup_phase[r])
       THEN IF current_leadership_state[r]
            THEN LET E == ensure_secrets(FALSE, FALSE, gate[r], src[r], tgt[r],
                                         {})
                 IN
                 /\ current_leadership_state' =
                       [current_leadership_state EXCEPT ![r] = FALSE]
                 /\ should_have' = [should_have EXCEPT ![r] = E.desired]
                 /\ ev' = [ev EXCEPT
                              ![r] = [EvNone EXCEPT
                                         !.forfeit = TRUE,
                                         !.ffchg = E.changed,
                                         !.nchg = IF E.changed THEN 1 ELSE 0,
                                         !.nsig = IF E.sighup THEN 1 ELSE 0]]
                 /\ IF crd.leaderPod # r
                    THEN /\ node_startup_phase' =
                               [node_startup_phase EXCEPT ![r] = TRUE]
                         /\ StartupTrack(r, E.tgt, FALSE)
                    ELSE /\ tgt' = [tgt EXCEPT ![r] = E.tgt]
                         /\ pc' = [pc EXCEPT ![r] = "ff_patch"]
                         /\ UNCHANGED <<node_startup_phase,
                                        startup_credentials_provisioned>>
            ELSE /\ node_startup_phase' =
                       [node_startup_phase EXCEPT ![r] = TRUE]
                 /\ StartupTrack(r, tgt[r], FALSE)
                 /\ ev' = [ev EXCEPT ![r] = EvNone]
                 /\ UNCHANGED <<current_leadership_state, should_have>>
       ELSE /\ node_startup_phase' =
                  [node_startup_phase EXCEPT
                      ![r] = is_node_in_startup_phase(socket[r], @)]
            /\ IF node_startup_phase'[r]
               THEN StartupTrack(r, tgt[r], startup_credentials_provisioned[r])
               ELSE RunningTrack(r)
            /\ ev' = [ev EXCEPT ![r] = EvNone]
            /\ UNCHANGED <<current_leadership_state, should_have>>
    /\ UNCHANGED <<polVars, rec, now, lease, crd, socket, gate, is_leader, snap, slept, src>>

\* forfeit_leadership, lines 398-420: the status patch that clears the
\* published leader; then is_node_in_startup_phase finishes (lines 274-280)
\* and the loop takes the startup track.
ForfeitPatch(r) ==
    /\ pc[r] = "ff_patch"
    /\ crd' = [leaderPod |-> NoHolder, forgingEnabled |-> FALSE]
    /\ node_startup_phase' = [node_startup_phase EXCEPT ![r] = TRUE]
    /\ StartupTrack(r, tgt[r], FALSE)
    /\ UNCHANGED <<polVars, rec, now, lease, socket, gate, current_leadership_state,
                   is_leader, attempt, snap, slept, src, should_have, ev>>

\* ------------------------------------------------------------------------
\* try_acquire_leader (lines 838-977)
\* ------------------------------------------------------------------------
\* create_lease (lines 791-816)
create_lease(t) ==
    [exists |-> TRUE, holder |-> NoHolder, renewTime |-> t,
     transitions |-> 0, rv |-> 1]

\* The record sent by patch_lease (lines 819-828, 896-903) for the lease l
\* that was read, and the store's answer: the patch is applied only when
\* the resourceVersion it carries is still the stored one.
patched_lease(l, self, t) ==
    [exists |-> TRUE, holder |-> self, renewTime |-> t,
     transitions |-> NewTransitions(l, self), rv |-> l.rv + 1]

patch_conflicts_unversioned(l, stored) == FALSE

patch_conflicts(l, stored) == l.rv # stored.rv

\* After a 409 or another failure of attempt number n (from 0) the loop
\* backs off and tries again, except at the last of its max_retries rounds
\* (lines 933, 967).
retry_once_more(n) == n < max_retries

retry(n) == n < max_retries - 1

\* get_lease (and create_lease when there is none), then lines 869-963.
TA_Read(r) ==
    /\ pc[r] \in {"ta_read", "ta_reread"}
    /\ IF ~lease.exists
       THEN /\ pc' = [pc EXCEPT
                         ![r] = IF pc[r] = "ta_read" THEN "ta_create"
                                ELSE "secrets"]
            /\ is_leader' = [is_leader EXCEPT
                                ![r] = IF pc[r] = "ta_read" THEN @ ELSE FALSE]
            /\ UNCHANGED <<snap, current_leadership_state>>
       ELSE IF can_acquire(lease, r, now)
            THEN /\ snap' = [snap EXCEPT ![r] = lease]
                 /\ pc' = [pc EXCEPT ![r] = "ta_patch"]
                 /\ UNCHANGED <<is_leader, current_leadership_state>>
            ELSE /\ current_leadership_state' =
                       [current_leadership_state EXCEPT
                           ![r] = (lease.holder = r)]
                 /\ is_leader' = [is_leader EXCEPT ![r] = (lease.holder = r)]
                 /\ pc' = [pc EXCEPT ![r] = "secrets"]
                 /\ UNCHANGED snap
    /\ ev' = [ev EXCEPT ![r].ret = IF pc'[r] = "secrets"
                           THEN IF is_leader'[r] THEN "T" ELSE "F"
                           ELSE @]
    /\ UNCHANGED <<polVars, rec, now, lease, crd, socket, gate, node_startup_phase,
                   startup_credentials_provisioned, attempt, slept, src, tgt,
                   should_have>>

TA_Create(r) ==
    /\ pc[r] = "ta_create"
    /\ lease' = IF lease.exists THEN lease ELSE create_lease(now)
    /\ pc' = [pc EXCEPT ![r] = "ta_reread"]
    /\ UNCHANGED <<polVars, rec, now, crd, socket, gate, node_startup_phase,
                   startup_credentials_provisioned, current_leadership_state,
                   is_leader, attempt, snap, slept, src, tgt, should_have, ev>>

TA_Patch(r) ==
    /\ pc[r] = "ta_patch"
    /\ IF ~patch_conflicts(snap[r], lease)
       THEN LET updated_lease == patched_lease(snap[r], r, now)
                final_holder == updated_lease.holder
            IN
            /\ lease' = updated_lease
            /\ current_leadership_state' =
                  [current_leadership_state EXCEPT ![r] = (final_holder = r)]
            /\ is_leader' = [is_leader EXCEPT ![r] = (final_holder = r)]
            /\ pc' = [pc EXCEPT ![r] = "secrets"]
            /\ UNCHANGED attempt
       ELSE /\ IF retry(attempt[r])
               THEN /\ attempt' = [attempt EXCEPT ![r] = @ + 1]
                    /\ pc' = [pc EXCEPT ![r] = "ta_read"]
                    /\ UNCHANGED is_leader
               ELSE /\ is_leader' = [is_leader EXCEPT ![r] = FALSE]
                    /\ pc' = [pc EXCEPT ![r] = "secrets"]
                    /\ UNCHANGED attempt
            /\ UNCHANGED <<lease, current_leadership_state>>
    /\ ev' = [ev EXCEPT
                 ![r].npatch = @ + 1,
                 ![r].nconf = IF patch_conflicts(snap[r], lease)
                              THEN @ + 1 ELSE @,
                 ![r].ret = IF pc'[r] = "secrets"
                           THEN IF is_leader'[r] THEN "T" ELSE "F"
                           ELSE @]
    /\ snap' = [snap EXCEPT ![r] = NoLease]
    /\ UNCHANGED <<polVars, rec, now, crd, socket, gate, node_startup_phase,
                   startup_credentials_provisioned, slept, src, tgt,
                   should_have>>

\* ------------------------------------------------------------------------
\* The rest of the iteration (lines 1192-1208)
\* ------------------------------------------------------------------------
\* ensure_secrets(is_leader) with its SIGHUP (lines 648-651).
Secrets(r) ==
    /\ pc[r] = "secrets"
    /\ LET E == ensure_secrets(is_leader[r], TRUE, gate[r], src[r], tgt[r],
                               {})
       IN
       /\ tgt' = [tgt EXCEPT ![r] = E.tgt]
       /\ should_have' = [should_have EXCEPT ![r] = E.desired]
       /\ ev' = [ev EXCEPT ![r].nchg = IF E.changed THEN @ + 1 ELSE @,
                           ![r].nsig = IF E.sighup THEN @ + 1 ELSE @]
    /\ pc' = [pc EXCEPT ![r] = "status"]
    /\ UNCHANGED <<polVars, rec, now, lease, crd, socket, gate, node_startup_phase,
                   startup_credentials_provisioned, current_leadership_state,
                   is_leader, attempt, snap, slept, src>>

\* update_leader_status (lines 423-499): the leader patches at once, a
\* non-leader reads the published status and patches only its own name away.
Status(r) ==
    /\ pc[r] = "status"
    /\ IF is_leader[r]
       THEN /\ crd' = [leaderPod |-> r, forgingEnabled |-> gate[r]]
            /\ pc' = [pc EXCEPT ![r] = "sleep"]
       ELSE /\ pc' = [pc EXCEPT
                         ![r] = IF crd.leaderPod = r THEN "status_patch"
                                ELSE "sleep"]
            /\ UNCHANGED crd
    /\ slept' = [slept EXCEPT ![r] = 0]
    /\ UNCHANGED <<polVars, rec, now, lease, socket, gate, node_startup_phase,
                   startup_credentials_provisioned, current_leadership_state,
                   is_leader, attempt, snap, src, tgt, should_have, ev>>

StatusPatch(r) ==
    /\ pc[r] = "status_patch"
    /\ crd' = [leaderPod |-> NoHolder, forgingEnabled |-> FALSE]
    /\ pc' = [pc EXCEPT ![r] = "sleep"]
    /\ slept' = [slept EXCEPT ![r] = 0]
    /\ UNCHANGED <<polVars, rec, now, lease, socket, gate, node_startup_phase,
                   startup_credentials_provisioned, current_leadership_state,
                   is_leader, attempt, snap, src, tgt, should_have, ev>>

\* time.sleep(calculate_jittered_sleep(SLEEP_INTERVAL)) is over.
Wake(r) ==
    /\ pc[r] = "sleep"
    /\ slept[r] >= SLEEP_INTERVAL
    /\ pc' = [pc EXCEPT ![r] = "loop"]
    /\ slept' = [slept EXCEPT ![r] = 0]
    /\ UNCHANGED <<polVars, rec, now, lease, crd, socket, gate, node_startup_phase,
                   startup_credentials_provisioned, current_leadership_state,
                   is_leader, attempt, snap, src, tgt, should_have, ev>>

Next ==
    \/ Tick
    \/ \E r \in Replicas : SocketUp(r)
    \/ \E r \in Replicas : SocketDown(r)
    \/ \E r \in Replicas : GateFlip(r)
    \/ \E r \in Replicas : Crash(r)
    \/ \E r \in Replicas : Restart(r)
    \/ \E r \in Replicas : Boot(r)
    \/ \E r \in Replicas : WaitForSocket(r)
    \/ \E r \in Replicas : Cleanup(r)
    \/ \E r \in Replicas : Probe(r)
    \/ \E r \in Replicas : ForfeitPatch(r)
    \/ \E r \in Replicas : TA_Read(r)
    \/ \E r \in Replicas : TA_Create(r)
    \/ \E r \in Replicas : TA_Patch(r)
    \/ \E r \in Replicas : Secrets(r)
    \/ \E r \in Replicas : Status(r)
    \/ \E r \in Replicas : StatusPatch(r)
    \/ \E r \in Replicas : Wake(r)

Spec == Init /\ [][Next]_vars

TypeOK ==
    /\ now \in 0..MaxTime
    /\ lease.holder \in Replicas \cup {NoHolder}
    /\ \A r \in Replicas : attempt[r] \in 0..(max_retries - 1)

\* ------------------------------------------------------------------------
\* The credential reconciler on its own: ensure_secrets called again and
\* again on one replica's files while the sources are rewritten, the gate
\* changes and file operations start or stop failing.
\* ------------------------------------------------------------------------
Rec == "a"

\* A copy or a removal that ensure_secrets attempted did not succeed.
reconcile_failed(leader, allowed, S, T, failing) ==
    \E f \in Files :
        IF leader /\ allowed
        THEN (~T[f].exists \/ ~files_identical(S[f], T[f]))
             /\ ~copy_secret(S[f], T[f], f \in failing).ok
        ELSE T[f].exists /\ ~remove_file(T[f], f \in failing).ok

RecUnchanged ==
    UNCHANGED <<polVars, now, lease, crd, pc, socket, node_startup_phase,
                startup_credentials_provisioned, current_leadership_state,
                is_leader, attempt, snap, slept, should_have, ev>>

\* ensure_secrets(is_leader=x) on the files of Rec.
RecReconcile(x) ==
    /\ LET E == ensure_secrets(x, TRUE, gate[Rec], src[Rec], tgt[Rec],
                               rec.failing)
           again == rec.n >= 1 /\ rec.x = x
       IN
       /\ tgt' = [tgt EXCEPT ![Rec] = E.tgt]
       /\ rec' = [rec EXCEPT
                     !.n = IF again THEN 2 ELSE 1,
                     !.x = x,
                     !.desired = E.desired,
                     !.err = reconcile_failed(x, gate[Rec], src[Rec],
                                              tgt[Rec], rec.failing),
                     !.changed = E.changed,
                     !.first_changed = again /\ rec.changed,
                     !.touched = (E.tgt # tgt[Rec])]
    /\ UNCHANGED <<src, gate>>
    /\ RecUnchanged

\* The source f is rewritten with content c, dt half seconds after its
\* previous modification time.
RecRotate(f, c, dt) ==
    /\ rec.rotations < MaxRotations
    /\ src[Rec][f].exists
    /\ src' = [src EXCEPT ![Rec][f] =
                  [exists |-> TRUE, content |-> c, mtime |-> @.mtime + dt]]
    /\ rec' = [rec EXCEPT !.n = 0, !.rotations = @ + 1]
    /\ UNCHANGED <<tgt, gate>>
    /\ RecUnchanged

\* The source f goes away.
RecRemoveSource(f) ==
    /\ rec.rotations < MaxRotations
    /\ src[Rec][f].exists
    /\ src' = [src EXCEPT ![Rec][f] = AbsentFile]
    /\ rec' = [rec EXCEPT !.n = 0, !.rotations = @ + 1]
    /\ UNCHANGED <<tgt, gate>>
    /\ RecUnchanged

RecGateFlip ==
    /\ gate' = [gate EXCEPT ![Rec] = ~@]
    /\ rec' = [rec EXCEPT !.n = 0]
    /\ UNCHANGED <<src, tgt>>
    /\ RecUnchanged

\* Copies and removals of the files in F start failing, the others work.
RecFault(F) ==
    /\ rec.failing # F
    /\ rec' = [rec EXCEPT !.n = 0, !.failing = F]
    /\ UNCHANGED <<src, tgt, gate>>
    /\ RecUnchanged

RecNext ==
    \/ \E x \in BOOLEAN : RecReconcile(x)
    \/ \E f \in Files, c \in Contents, dt \in {1, OneSecond} : RecRotate(f, c, dt)
    \/ \E f \in Files : RecRemoveSource(f)
    \/ RecGateFlip
    \/ \E F \in SUBSET Files : RecFault(F)

SpecRec == Init /\ [][RecNext]_vars

\* ------------------------------------------------------------------------
\* The same system under the scheduling the code has: a live replica's
\* main() always takes its next step and the clock keeps running.  The gate
\* is left alone: try_acquire_leader does not read it.
\* ------------------------------------------------------------------------
LoopStep(r) ==
    \/ Boot(r) \/ WaitForSocket(r) \/ Cleanup(r) \/ Probe(r)
    \/ ForfeitPatch(r) \/ TA_Read(r) \/ TA_Create(r) \/ TA_Patch(r)
    \/ Secrets(r) \/ Status(r) \/ StatusPatch(r) \/ Wake(r)

LiveNext ==
    \/ Tick
    \/ \E r \in Replicas : SocketUp(r)
    \/ \E r \in Replicas : SocketDown(r)
    \/ \E r \in Replicas : Crash(r)
    \/ \E r \in Replicas : Restart(r)
    \/ \E r \in Replicas : LoopStep(r)

SpecLive ==
    /\ Init
    /\ [][LiveNext]_vars
    /\ WF_vars(Tick)
    /\ \A r \in Replicas : WF_vars(LoopStep(r))

\* ------------------------------------------------------------------------
\* Properties
\* ------------------------------------------------------------------------
Alive(r) == pc[r] # "dead"
HasCredentials(r) == \E f \in Files : tgt[r][f].exists
AllCredentials(r) ==
    \A f \in Files : tgt[r][f].exists /\ tgt[r][f].content = src[r][f].content
NoCredentials(r) == \A f \in Files : ~tgt[r][f].exists

\* A running iteration of r is past try_acquire_leader.
AcquireDone(r) ==
    /\ pc[r] \in {"secrets", "status", "status_patch", "sleep"}
    /\ ~node_startup_phase[r]

\* A running iteration of r is past ensure_secrets.
ReconcileDone(r) ==
    /\ pc[r] \in {"status", "status_patch", "sleep"}
    /\ ~node_startup_phase[r]

\* held and desiredPresent of r: the result of its latest
\* try_acquire_leader and the should_have_credentials of its latest
\* ensure_secrets.
Forging(r) == Alive(r) /\ is_leader[r] /\ should_have[r]

\* C1 (exclusion): at most one live replica has held = true and
\* desiredPresent = true.
C1_Exclusion ==
    \A r1, r2 \in Replicas : Forging(r1) /\ Forging(r2) => r1 = r2

\* A replica forges after it took the lease over from the other one.
C1_Witness ==
    \E r \in Replicas : Forging(r) /\ lease.holder = r /\ lease.transitions = 1

C3_OneWinner ==
    (\A r \in Replicas : AcquireDone(r)) =>
        /\ lease.holder \in Replicas
        /\ \A r \in Replicas : is_leader[r] <=> lease.holder = r

\* Both raced for the vacant lease: one patch was rejected and retried.
C3_Witness ==
    /\ \A r \in Replicas : AcquireDone(r)
    /\ \E r \in Replicas : attempt[r] = 1 /\ ~is_leader[r]
    /\ lease.transitions = 0
    /\ now = 0

\* One step of the lease record, as C5 wants it.
C5_TransitionStep ==
    /\ lease'.transitions >= lease.transitions
    /\ (lease.holder # NoHolder /\ lease'.holder # lease.holder) =>
          /\ Expired(lease, now)
          /\ lease'.transitions = lease.transitions + 1
    /\ (lease.holder = NoHolder \/ lease'.holder = lease.holder) =>
          lease'.transitions = lease.transitions
    /\ \A r \in Replicas :
          (pc[r] = "ta_patch" /\ pc'[r] # "ta_patch" /\ lease' # lease) =>
              lease'.holder = r /\ is_leader'[r]

\* C5 (transition accounting): transitions never decreases; a change of
\* holder from one replica to another happens only on an expired lease and
\* adds exactly 1; acquiring a vacant lease and renewing add nothing; and an
\* accepted patch makes the patching replica the holder.
C5_Transitions == [][C5_TransitionStep]_vars

\* The lease was taken over once, and its new holder has renewed it.
C5_Witness ==
    /\ lease.transitions = 1
    /\ lease.holder \in Replicas
    /\ lease.renewTime > LEASE_DURATION

\* The step in which r's forfeit_leadership runs.
ForfeitStep(r) ==
    /\ pc[r] = "loop"
    /\ socket_lost(socket[r], node_startup_phase[r])
    /\ pc'[r] # "loop"

\* C6 as claimed: forfeit_leadership clears the holder of the lease when
\* the holder is this replica and leaves the lease alone otherwise.
C6_ForfeitClearsHolder ==
    [][\A r \in Replicas :
          ForfeitStep(r) =>
              IF lease.holder = r
              THEN lease'.holder = NoHolder
              ELSE lease' = lease]_vars

IterationOver(r) == pc[r] \in {"sleep", "loop"}

\* C9 as claimed: at the end of an iteration there are as many SIGHUPs as
\* reconciles that reported a change, the forfeiture's included.
C9_SignalPerChange ==
    \A r \in Replicas : IterationOver(r) => ev[r].nsig = ev[r].nchg

\* C9 as amended: every changed reconcile of the normal path and of
\* startup_cleanup is followed by exactly one SIGHUP and an unchanged one
\* by none; the reconcile of the forfeiture is followed by none.
C9_SignalPerChangeButForfeit ==
    \A r \in Replicas :
        ev[r].nsig = ev[r].nchg - (IF ev[r].ffchg THEN 1 ELSE 0)

\* One iteration removed orphans in startup_cleanup and then provisioned
\* after a takeover: two changes, two signals.
C9_Witness ==
    \E r \in Replicas : IterationOver(r) /\ ev[r].nsig = 2 /\ ev[r].nchg = 2

\* C8 as claimed: after a reconcile that met no filesystem error, every
\* target exists iff desiredPresent held at the call's entry, and every
\* target that exists has the content of its source.
C8_ReconcileCorrect ==
    (rec.n >= 1 /\ ~rec.err) =>
        \A f \in Files :
            /\ tgt[Rec][f].exists <=> rec.desired
            /\ tgt[Rec][f].exists =>
                  tgt[Rec][f].content = src[Rec][f].content

\* C10 (idempotent reconcile): of two consecutive reconciles with the same
\* argument, with sources, gate and failing file operations unchanged in
\* between, at most one reports a change and the second leaves every
\* target file as it was.
C10_Idempotent ==
    rec.n = 2 => ~(rec.first_changed /\ rec.changed) /\ ~rec.touched

\* The first of two such reconciles rewrote a 1 MiB target after its
\* source was rewritten, the second found nothing to do.
C10_Witness ==
    /\ rec.n = 2 /\ rec.x /\ rec.desired
    /\ rec.first_changed /\ ~rec.changed
    /\ rec.rotations > 0
    /\ \E f \in Files : tgt[Rec][f].exists /\ tgt[Rec][f].content = 3

\* The holder a of the lease has stopped renewing: it crashed or it is on
\* the startup track.  The node of b is up, so b runs or will run.
Stopped(a) == ~Alive(a) \/ node_startup_phase[a]
NodeUp(b) == Alive(b) /\ socket[b] = "socket"

\* The clock of the model stops at MaxTime: a replica that found its node
\* down in the last iteration before that sleeps on and is never seen on
\* the running track.
ClockStopped(b) ==
    now = MaxTime /\ pc[b] = "sleep" /\ slept[b] = 0 /\ node_startup_phase[b]

\* C4 (failover): once the lease of a stopped holder a has expired while
\* the node of another replica b is up, b's try_acquire_leader eventually
\* returns true with b as the holder, unless b's node goes down or b
\* crashes, or a comes back to the running track (within the horizon).
C4_Failover ==
    \A a, b \in Replicas :
        (a # b) =>
            ((lease.holder = a /\ Expired(lease, now) /\ Stopped(a)
              /\ NodeUp(b))
             ~> \/ lease.holder = b /\ is_leader[b] /\ AcquireDone(b)
                \/ ~NodeUp(b)
                \/ ~Stopped(a)
                \/ ClockStopped(b))

\* The holder crashed, its lease expired, and the other replica, whose
\* node stayed up, took the lease over.
C4_Witness ==
    \E a, b \in Replicas :
        /\ a # b /\ ~Alive(a) /\ NodeUp(b)
        /\ lease.holder = b /\ is_leader[b] /\ AcquireDone(b)
        /\ lease.transitions = 1

\* What GET /startup-status of a live replica answers: 200 or 503.
startup_status(r) ==
    IF check_startup_credentials_ready(startup_credentials_provisioned[r],
                                       tgt[r])
    THEN 200 ELSE 503

\* C20 (readiness endpoint): /startup-status of a live replica answers 200
\* exactly when all three target files exist with size > 0, else 503.
C20_ReadyIffFiles ==
    \A r \in Replicas :
        Alive(r) =>
            (startup_status(r) = 200
                <=> \A f \in Files :
                        tgt[r][f].exists /\ SizeOf(tgt[r][f].content) > 0)

\* The step in which r, not holding the lease, patches the published
\* status: the second half of update_leader_status(False) or of
\* forfeit_leadership.
NonLeaderStatusWrite(r) ==
    /\ pc[r] \in {"status_patch", "ff_patch"}
    /\ pc'[r] \notin {"status_patch", "ff_patch", "dead"}

\* C12 (race-safe clearing): a status write of a replica that does not hold
\* the lease never clears or replaces a published leader that names
\* another replica.
C12_ClearsOnlyOwnName ==
    [][\A r \in Replicas :
          (NonLeaderStatusWrite(r) /\ crd.leaderPod \in Replicas \ {r})
              => crd'.leaderPod = crd.leaderPod]_vars

\* ------------------------------------------------------------------------
\* The policy evaluation on its own: replica "a" with any cached policy
\* spec, any health failure counter and any time evaluates the gate or
\* builds the status it would publish.
\* ------------------------------------------------------------------------
Eff == "a"

CachedSpecs ==
    { [present |-> TRUE, spec |-> ps, status |-> NoStatus] : ps \in PolicySpecs }

EffInit ==
    /\ ProcessInit
    /\ pol = NoCache
    /\ \E c \in CachedSpecs \cup {NoCache}, on \in BOOLEAN :
           /\ (~on \/ ~c.present) => c.spec = DefaultSpec
           /\ cache = [r \in Replicas |-> IF r = Eff THEN c ELSE NoCache]
           /\ enabled = [r \in Replicas |-> r = Eff /\ on]
    /\ \E n \in 0..MaxFailures :
           health_failures = [r \in Replicas |-> IF r = Eff THEN n ELSE 0]
    /\ last_health_check = [r \in Replicas |-> NoCheck]
    /\ unseen = [r \in Replicas |-> FALSE]
    /\ polw = NoWrite
    /\ out = NoOut
    /\ tenancy = NoTenancy
    /\ ManagerIdle
    /\ CopyIdle

EffUnchanged ==
    UNCHANGED <<lease, crd, pc, socket, gate, node_startup_phase,
                startup_credentials_provisioned, current_leadership_state,
                is_leader, attempt, snap, slept, src, tgt, should_have, ev,
                rec, pol, cache, health_failures, last_health_check, enabled, unseen, polw,
                tenancy, mgrVars, copyVars>>

\* Time passes before the evaluation.
EffTick ==
    /\ out = NoOut
    /\ now < MaxTime
    /\ now' = now + 1
    /\ out' = out
    /\ EffUnchanged

\* should_allow_forging() is called.
EffGate ==
    /\ out = NoOut
    /\ out' = [op |-> "should_allow_forging",
               allow |-> should_allow_forging(enabled[Eff], cache[Eff],
                                              health_failures[Eff], now),
               status |-> NoStatus]
    /\ now' = now
    /\ EffUnchanged

\* _build_comprehensive_status_update(pod_name, is_leader) is called.
EffStatus(leader) ==
    /\ out = NoOut
    /\ cache[Eff].present
    /\ out' = [op |-> "status", allow |-> TRUE,
               status |-> build_comprehensive_status_update(
                              cache[Eff], health_failures[Eff], now, Eff, leader)]
    /\ now' = now
    /\ EffUnchanged

EffNext ==
    \/ EffTick
    \/ EffGate
    \/ \E leader \in BOOLEAN : EffStatus(leader)

SpecEff == EffInit /\ [][EffNext]_vars

\* The cached spec and counter the evaluation of replica Eff reads.
EffSpec == cache[Eff].spec
EffOverride == cache[Eff].spec.override
EffFailures == health_failures[Eff]

\* The override is enabled and its expiresAt is an instant after now.
OverrideInForce ==
    /\ cache[Eff].present
    /\ EffOverride.enabled
    /\ EffOverride.expiresAt.kind = "rfc3339"
    /\ EffOverride.expiresAt.t > now

\* C15 (override precedence): whenever the cached spec has override.enabled
\* and an expiresAt after now, the effective state that is computed equals
\* override.forceState when that is set, and the effective priority equals
\* override.forcePriority when that is set, whatever spec.forgeState and the
\* health failure counter are.
C15_OverridePrecedence ==
    (out.op = "status" /\ OverrideInForce) =>
        /\ EffOverride.hasForceState =>
               out.status.effectiveState = EffOverride.forceState
        /\ EffOverride.hasForcePriority =>
               out.status.effectivePriority = EffOverride.forcePriority

C15_Witness ==
    /\ out.op = "status" /\ OverrideInForce
    /\ EffOverride.hasForceState /\ EffOverride.forceState = "Enabled"
    /\ EffOverride.hasForcePriority /\ EffOverride.forcePriority = 1
    /\ EffSpec.forgeState = "Priority-based" /\ EffSpec.priority = 10
    /\ EffFailures >= health_threshold
    /\ out.status.effectiveState = "Enabled"
    /\ out.status.effectivePriority = 1
    /\ now > 0

\* C16 (the gate): should_allow_forging returns false if and only if an
\* effective state is computed and it is Disabled; for Enabled and for
\* Priority-based, with any effective priority and any health, it returns
\* true.
C16_FalseIffDisabled ==
    out.op = "should_allow_forging" =>
        (~out.allow
            <=> /\ enabled[Eff] /\ cache[Eff].present
                /\ calculate_effective_state_and_priority(
                       EffSpec, EffFailures, now).state = "Disabled")

C16_Witness ==
    /\ out.op = "should_allow_forging" /\ out.allow
    /\ enabled[Eff] /\ cache[Eff].present
    /\ calculate_effective_state_and_priority(EffSpec, EffFailures, now)
           = [state |-> "Priority-based", priority |-> 10 + health_penalty,
              reason |-> "health_degraded"]

NoOverrideInForce ==
    \/ ~EffOverride.enabled
    \/ EffOverride.expiresAt.kind = "rfc3339" /\ EffOverride.expiresAt.t < now

\* C18 (health degradation): with forgeState Priority-based and no override
\* in force, the effective priority is the base priority + 100 with reason
\* health_degraded exactly when the failure counter has reached the policy's
\* healthCheck.failureThreshold, the base priority + 10 with reason
\* health_intermittent exactly when it is above 0 and below the threshold,
\* and the base priority otherwise.
C18_HealthDegradation ==
    (/\ out.op = "status"
     /\ EffSpec.forgeState = "Priority-based"
     /\ NoOverrideInForce) =>
        /\ out.status.effectiveState = "Priority-based"
        /\ IF EffFailures >= EffSpec.failureThreshold
           THEN /\ out.status.effectivePriority = EffSpec.priority + 100
                /\ out.status.reason = "health_degraded"
           ELSE IF EffFailures > 0
           THEN /\ out.status.effectivePriority = EffSpec.priority + 10
                /\ out.status.reason = "health_intermittent"
           ELSE /\ out.status.effectivePriority = EffSpec.priority
                /\ out.status.reason \notin
                       {"health_degraded", "health_intermittent"}

\* ------------------------------------------------------------------------
\* Tenancy: the names two tenants derive from (network, pool id, region).
\* Texts are sequences of characters.
\* ------------------------------------------------------------------------
Pool1Length == 10
PoolLength == 8

Take(str, n) == IF Len(str) <= n THEN str ELSE SubSeq(str, 1, n)

Pool1 == <<"p", "o", "o", "l", "1">>

StartsWith(str, prefix) ==
    Len(str) >= Len(prefix) /\ SubSeq(str, 1, Len(prefix)) = prefix

get_pool_short_id(pool_id) ==
    IF StartsWith(pool_id, Pool1) THEN Take(pool_id, Pool1Length)
    ELSE IF Len(pool_id) >= PoolLength THEN Take(pool_id, PoolLength)
    ELSE pool_id

CLUSTER_IDENTIFIER == <<"h", "o", "s", "t">>

get_multi_tenant_cluster_name(k) ==
    IF k.pool # <<>> /\ k.network # <<>> /\ k.region # <<>>
    THEN k.network \o <<"-">> \o get_pool_short_id(k.pool) \o <<"-">> \o k.region
    ELSE CLUSTER_IDENTIFIER

get_lease_name(k) ==
    IF k.pool # <<>> /\ k.network # <<>>
    THEN <<"cardano-leader-">> \o k.network \o <<"-">> \o get_pool_short_id(k.pool)
    ELSE <<"cardano-node-leader">>

\* os.environ.get(name, default) for a variable that is unset or set.
Unset == <<>>
environ_get(value, default) == IF value = Unset THEN default ELSE value

\* forgemanager.LEASE_NAME, the name get_lease, create_lease and patch_lease
\* pass to the store.
LEASE_NAME(env) == environ_get(env, <<"cardano-node-leader">>)

\* The texts the deployment may put into the LEASE_NAME variable.
LeaseNameEnv == {Unset, <<"m", "y", "-", "l", "e", "a", "s", "e">>}

Tails == UNION { [1..n -> {"x", "y"}] : n \in 0..MaxTail }
PoolIds ==
    { Pool1 \o <<"a", "b", "c", "d">> \o t : t \in Tails }
    \cup { <<"a", "b", "c", "d", "e", "f", "g">> \o t : t \in Tails }
Networks == { <<"m", "a", "i", "n">>, <<"p", "r", "e">> }
Regions == { <<"u", "s">>, <<"e", "u">> }
TenancyKeys == [network : Networks, pool : PoolIds, region : Regions]

Tenants == {1, 2}

TenancyInit ==
    /\ ProcessInit
    /\ pol = NoCache
    /\ cache = [r \in Replicas |-> NoCache]
    /\ health_failures = [r \in Replicas |-> 0]
    /\ last_health_check = [r \in Replicas |-> NoCheck]
    /\ enabled = [r \in Replicas |-> FALSE]
    /\ unseen = [r \in Replicas |-> FALSE]
    /\ polw = NoWrite
    /\ ManagerIdle
    /\ CopyIdle
    /\ out = NoOut
    /\ \E k1, k2 \in TenancyKeys, e1, e2 \in LeaseNameEnv :
           tenancy = [i \in Tenants |->
                         [key |-> IF i = 1 THEN k1 ELSE k2,
                          env |-> IF i = 1 THEN e1 ELSE e2, started |-> FALSE,
                          cluster_id |-> <<>>, lease_name |-> <<>>,
                          LEASE_NAME |-> <<>>]]

\* The process of tenant i starts: forgemanager reads LEASE_NAME at import
\* and ClusterForgeManager.__init__ derives its two names.
TenantStart(i) ==
    /\ ~tenancy[i].started
    /\ tenancy' = [tenancy EXCEPT
                      ![i].started = TRUE,
                      ![i].cluster_id = get_multi_tenant_cluster_name(tenancy[i].key),
                      ![i].lease_name = get_lease_name(tenancy[i].key),
                      ![i].LEASE_NAME = LEASE_NAME(tenancy[i].env)]
    /\ UNCHANGED <<now, lease, crd, pc, socket, gate, node_startup_phase,
                   startup_credentials_provisioned, current_leadership_state,
                   is_leader, attempt, snap, slept, src, tgt, should_have, ev,
                   rec, pol, cache, health_failures, last_health_check, enabled, unseen, polw, out,
                   mgrVars, copyVars>>

TenancyNext == \E i \in Tenants : TenantStart(i)

SpecTenancy == TenancyInit /\ [][TenancyNext]_vars

\* C19 (tenancy isolation): two tenants with different tenancy keys
\* (network, pool id, region) derive different lease names and different
\* policy-object names.
C19_TenancyIsolation ==
    \A i, j \in Tenants :
        (/\ tenancy[i].started /\ tenancy[j].started
         /\ tenancy[i].key # tenancy[j].key) =>
            /\ tenancy[i].lease_name # tenancy[j].lease_name
            /\ tenancy[i].cluster_id # tenancy[j].cluster_id

\* ------------------------------------------------------------------------
\* Cluster management on (ENABLE_CLUSTER_MANAGEMENT=true): the control loop
\* of two replicas whose nodes are up and running, with the watch thread
\* and the health thread of each replica's ClusterForgeManager and an
\* administrator who edits or deletes the policy object.
\* ------------------------------------------------------------------------
\* The specs the administrator chooses between.
AdminSpecs ==
    [forgeState : {"Priority-based", "Disabled"}, priority : {10},
     override : {NoOverride}, failureThreshold : {3}]

PolInit ==
    /\ ProcessInit
    /\ \E ps \in AdminSpecs \cup {DefaultSpec}, there \in BOOLEAN :
           /\ ~there => ps = DefaultSpec
           /\ pol = [present |-> there, spec |-> ps, status |-> NoStatus]
    /\ cache = [r \in Replicas |-> NoCache]
    /\ health_failures = [r \in Replicas |-> 0]
    /\ last_health_check = [r \in Replicas |-> NoCheck]
    /\ \E on \in BOOLEAN : enabled = [r \in Replicas |-> on]
    /\ unseen = [r \in Replicas |-> FALSE]
    /\ polw = NoWrite
    /\ out = NoOut
    /\ tenancy = NoTenancy
    /\ ManagerIdle
    /\ CopyIdle

PolUnchanged ==
    UNCHANGED <<socket, node_startup_phase, startup_credentials_provisioned,
                current_leadership_state, attempt, slept, src, tgt,
                should_have, ev, rec, out, tenancy, mgrVars, copyVars>>

\* The watch threads that will see a change of the stored object.
Watchers == [r \in Replicas |-> enabled[r] /\ pc[r] # "boot"]

\* patch_namespaced_custom_object_status of the policy object by replica r
\* from one of its threads: who patched last, n telling one patch from the
\* next.
PatchRecord(r, task) == [writer |-> r, task |-> task, n |-> 1 - polw.n]

\* _create_cluster_crd: the object the store holds after the create call.
create_cluster_crd == [present |-> TRUE, spec |-> DefaultSpec, status |-> NoStatus]

ensure_cluster_crd_recreates(p) == create_cluster_crd

\* _ensure_cluster_crd: the object found in the store, or the one created
\* when the read answers 404.
ensure_cluster_crd(p) == IF p.present THEN p ELSE create_cluster_crd

\* _handle_cluster_crd_change: whether the event's spec differs from the
\* cached one in forgeState, priority or override.
spec_changed_always(old, obj) == TRUE

spec_changed(old, obj) ==
    \/ ~old.present
    \/ obj.spec.forgeState # old.spec.forgeState
    \/ obj.spec.priority # old.spec.priority
    \/ obj.spec.override # old.spec.override

\* ClusterForgeManager.start(): _ensure_cluster_crd reads the object or
\* creates it, then the threads start; the watch first reports the object
\* that exists.
PolStart(r) ==
    /\ pc[r] = "boot"
    /\ pc' = [pc EXCEPT ![r] = "loop"]
    /\ IF ~enabled[r]
       THEN UNCHANGED <<pol, cache, unseen>>
       ELSE LET obj == ensure_cluster_crd(pol)
            IN  /\ pol' = obj
                /\ cache' = [cache EXCEPT ![r] = obj]
                /\ unseen' = [q \in Replicas |->
                                 IF q = r THEN TRUE
                                 ELSE unseen[q] \/ (Watchers[q] /\ ~pol.present)]
    /\ UNCHANGED <<now, lease, crd, gate, is_leader, snap, health_failures, last_health_check,
                   enabled, polw>>
    /\ PolUnchanged

\* cluster_manager.update_leader_status(pod_name, is_leader), called from
\* forgemanager.update_leader_status with is_leader = forging_enabled.
ClusterLeaderStatus(r, leader) ==
    IF enabled[r] /\ cache[r].present /\ pol.present
    THEN LET st == build_comprehensive_status_update(
                       cache[r], health_failures[r], now, r, leader)
         IN  /\ pol' = [pol EXCEPT !.status = st]
             /\ polw' = PatchRecord(r, "loop")
             /\ unseen' = [q \in Replicas |-> unseen[q] \/ Watchers[q]]
    ELSE UNCHANGED <<pol, polw, unseen>>

\* One loop iteration of a replica whose node is running:
\* try_acquire_leader, then forgemanager.update_leader_status(is_leader),
\* then the sleep begins.
PolIteration(r) ==
    /\ pc[r] = "loop"
    /\ pc' = [pc EXCEPT ![r] = "sleep"]
    /\ LET l == IF lease.exists THEN lease ELSE create_lease(now)
           leader == can_acquire(l, r, now)
           forging_allowed ==
               should_allow_forging(enabled[r], cache[r], health_failures[r], now)
           forging_enabled == leader /\ forging_allowed
       IN  /\ lease' = IF leader THEN patched_lease(l, r, now) ELSE l
           /\ is_leader' = [is_leader EXCEPT ![r] = leader]
           /\ IF leader
              THEN /\ crd' = [leaderPod |-> r, forgingEnabled |-> forging_enabled]
                   /\ ClusterLeaderStatus(r, forging_enabled)
              ELSE IF crd.leaderPod = r
              THEN /\ crd' = [leaderPod |-> NoHolder, forgingEnabled |-> FALSE]
                   /\ ClusterLeaderStatus(r, FALSE)
              ELSE UNCHANGED <<crd, pol, polw, unseen>>
    /\ UNCHANGED <<now, gate, snap, cache, health_failures, last_health_check, enabled>>
    /\ PolUnchanged

\* _watch_cluster_crd delivers an event to _handle_cluster_crd_change: the
\* event's object replaces the cache, whatever the event type, and the
\* status is patched when the spec differs from the cached one or the
\* status has no effectiveState.
PolWatch(r) ==
    /\ Watchers[r] /\ unseen[r]
    /\ LET obj == [present |-> TRUE, spec |-> pol.spec, status |-> pol.status]
           old == cache[r]
           current_leader == obj.status.activeLeader
           st == build_comprehensive_status_update(
                     obj, health_failures[r], now, current_leader,
                     current_leader = r)
       IN  /\ cache' = [cache EXCEPT ![r] = obj]
           /\ IF (spec_changed(old, obj) \/ obj.status.effectiveState = "")
                 /\ pol.present
              THEN /\ pol' = [pol EXCEPT !.status = st]
                   /\ polw' = PatchRecord(r, "watch")
                   /\ unseen' = [q \in Replicas |->
                                    IF q = r THEN st # pol.status
                                    ELSE unseen[q] \/ Watchers[q]]
              ELSE /\ unseen' = [unseen EXCEPT ![r] = FALSE]
                   /\ UNCHANGED <<pol, polw>>
    /\ UNCHANGED <<now, lease, crd, pc, gate, is_leader, snap,
                   health_failures, last_health_check, enabled>>
    /\ PolUnchanged

\* _perform_health_check: the counter, then _update_health_status patches
\* status.healthStatus.
PolProbe(r, healthy) ==
    /\ Watchers[r]
    /\ \/ last_health_check[r] = NoCheck
       \/ now >= last_health_check[r] + HEALTH_CHECK_INTERVAL
    /\ healthy \/ health_failures[r] < MaxFailures
    /\ health_failures' = [health_failures EXCEPT
                              ![r] = IF healthy THEN 0 ELSE @ + 1]
    /\ last_health_check' = [last_health_check EXCEPT ![r] = now]
    /\ IF cache[r].present /\ pol.present
       THEN polw' = PatchRecord(r, "health")
       ELSE polw' = polw
    /\ UNCHANGED <<now, lease, crd, pc, gate, is_leader, snap, pol, cache,
                   enabled, unseen>>
    /\ PolUnchanged

\* The administrator replaces the spec of the policy object.
AdminApply(ps) ==
    /\ pol.present /\ ps # pol.spec
    /\ pol' = [pol EXCEPT !.spec = ps]
    /\ unseen' = [q \in Replicas |-> unseen[q] \/ Watchers[q]]
    /\ UNCHANGED <<now, lease, crd, pc, gate, is_leader, snap, cache,
                   health_failures, last_health_check, enabled, polw>>
    /\ PolUnchanged

\* The administrator deletes the policy object; the watch reports Deleted
\* with the object as it last was.
AdminDelete ==
    /\ pol.present
    /\ pol' = [pol EXCEPT !.present = FALSE]
    /\ unseen' = [q \in Replicas |-> unseen[q] \/ Watchers[q]]
    /\ UNCHANGED <<now, lease, crd, pc, gate, is_leader, snap, cache,
                   health_failures, last_health_check, enabled, polw>>
    /\ PolUnchanged

\* Every thread of every replica is blocked: the loops sleep, the watch
\* threads have no event to handle, the health threads wait for their next
\* interval.  SLEEP_INTERVAL passes.
PolTick ==
    /\ now < MaxPolTime
    /\ \A r \in Replicas :
           /\ pc[r] = "sleep"
           /\ ~unseen[r]
           /\ enabled[r] => /\ last_health_check[r] # NoCheck
                            /\ now < last_health_check[r] + HEALTH_CHECK_INTERVAL
    /\ now' = now + 1
    /\ pc' = [r \in Replicas |-> "loop"]
    /\ UNCHANGED <<lease, crd, gate, is_leader, snap, polVars>>
    /\ PolUnchanged

PolNext ==
    \/ PolTick
    \/ AdminDelete
    \/ \E ps \in AdminSpecs : AdminApply(ps)
    \/ \E r \in Replicas :
           \/ PolStart(r)
           \/ PolIteration(r)
           \/ PolWatch(r)
           \/ \E healthy \in BOOLEAN : PolProbe(r, healthy)

SpecPol == PolInit /\ [][PolNext]_vars

\* A step in which a replica patched the status of the policy object, and
\* a step that is a loop iteration of r ending with r as the lease holder.
Patched == polw' # polw
ClearsOwnName ==
    /\ pol.status.activeLeader = polw'.writer
    /\ pol'.status.activeLeader = ""
LeaderIteration(r) ==
    /\ pc[r] = "loop" /\ pc'[r] = "sleep"
    /\ lease'.holder = r

\* C11 (status monotonicity): a patch changes the published activeLeader
\* from X to a different Y only if the writer observed the lease holder to
\* equal Y, that is, the patch comes from a loop iteration whose
\* try_acquire_leader left or found Y in the lease.  The clearing of the
\* writer's own name is not counted.
C11_ActiveLeaderFollowsLease ==
    [][(/\ Patched
        /\ pol'.status.activeLeader # pol.status.activeLeader
        /\ ~ClearsOwnName)
           => /\ polw'.task = "loop"
              /\ lease'.holder = pol'.status.activeLeader]_vars

\* C13 (the leader publishes itself): a replica that holds the lease at the
\* status-publish step publishes its own identity as leaderPod of the leader
\* object and as activeLeader of the policy object, whether or not the gate
\* allows forging.
C13_LeaderPublishesItself ==
    [][\A r \in Replicas :
          LeaderIteration(r) =>
              /\ crd'.leaderPod = r
              /\ (enabled[r] /\ cache[r].present /\ pol.present)
                     => pol'.status.activeLeader = r]_vars

\* C14 (only the leader patches): every patch of the policy object's status
\* is issued by a replica that holds the lease, except the clearing of the
\* writer's own stale leader name.
C14_OnlyLeaderPatches ==
    [][Patched =>
          \/ lease'.holder = polw'.writer
          \/ ClearsOwnName]_vars

\* C17 (permissive default): when cluster management is disabled, or the
\* policy object is gone from the store and the replica's watch has reported
\* it, should_allow_forging returns true, so the leader's forgingEnabled
\* (is_leader and forging_allowed) equals is_leader.
C17_PermissiveDefault ==
    [][\A r \in Replicas :
          (/\ LeaderIteration(r)
           /\ \/ ~enabled[r]
              \/ ~pol.present /\ ~unseen[r])
              => crd'.forgingEnabled]_vars

\* ------------------------------------------------------------------------
\* try_acquire_leader on its own: replica Acq calls it once per loop
\* iteration while another replica competes for the lease, other clients
\* update the lease object, and store calls fail.
\* ------------------------------------------------------------------------
Acq == "a"
Other == "b"

AcqInit ==
    /\ now = 0
    /\ lease = NoLease
    /\ crd = [leaderPod |-> NoHolder, forgingEnabled |-> FALSE]
    /\ pc = [r \in Replicas |-> IF r = Acq THEN "ta_read" ELSE "dead"]
    /\ socket = [r \in Replicas |-> IF r = Acq THEN "socket" ELSE "absent"]
    /\ gate = [r \in Replicas |-> TRUE]
    /\ node_startup_phase = [r \in Replicas |-> r # Acq]
    /\ startup_credentials_provisioned = [r \in Replicas |-> FALSE]
    /\ current_leadership_state = [r \in Replicas |-> FALSE]
    /\ is_leader = [r \in Replicas |-> FALSE]
    /\ attempt = [r \in Replicas |-> 0]
    /\ snap = [r \in Replicas |-> NoLease]
    /\ slept = [r \in Replicas |-> 0]
    /\ src = [r \in Replicas |-> SourceFiles]
    /\ tgt = [r \in Replicas |-> NoFiles]
    /\ should_have = [r \in Replicas |-> FALSE]
    /\ ev = [r \in Replicas |-> EvNone]
    /\ rec = RecNone
    /\ ClusterManagementOff

\* The outer handler assigns nothing to current_leadership_state: the
\* belief b of before the failed store call is the belief after it.
belief_cleared_after_error(b) == FALSE

belief_after_error(b) == b

\* A store call of the attempt raises something else than a 409 (an
\* ApiException re-raised by get_lease, create_lease or patch_lease, or a
\* connection error): the outer handler (lines 965-974) backs off and
\* retries, and at the last attempt returns False with the belief as it
\* was.  applied: the store had applied the patch before the call failed.
TA_Error(r, applied) ==
    /\ pc[r] \in {"ta_read", "ta_create", "ta_reread", "ta_patch"}
    /\ applied => (pc[r] = "ta_patch" /\ ~patch_conflicts(snap[r], lease))
    /\ lease' = IF applied THEN patched_lease(snap[r], r, now) ELSE lease
    /\ IF retry(attempt[r])
       THEN /\ attempt' = [attempt EXCEPT ![r] = @ + 1]
            /\ pc' = [pc EXCEPT ![r] = "ta_read"]
            /\ UNCHANGED is_leader
       ELSE /\ is_leader' = [is_leader EXCEPT ![r] = FALSE]
            /\ pc' = [pc EXCEPT ![r] = "secrets"]
            /\ UNCHANGED attempt
    /\ current_leadership_state' =
          [current_leadership_state EXCEPT ![r] = belief_after_error(@)]
    /\ ev' = [ev EXCEPT
                 ![r].nerr = @ + 1,
                 ![r].npatch = IF pc[r] = "ta_patch" THEN @ + 1 ELSE @,
                 ![r].ret = IF pc'[r] = "secrets"
                           THEN IF is_leader'[r] THEN "T" ELSE "F"
                           ELSE @]
    /\ snap' = [snap EXCEPT ![r] = NoLease]
    /\ UNCHANGED <<polVars, rec, now, crd, socket, gate, node_startup_phase,
                   startup_credentials_provisioned, slept, src, tgt,
                   should_have>>

\* The call has returned; the loop calls again one SLEEP_INTERVAL later.
AcqCall ==
    /\ pc[Acq] = "secrets"
    /\ now < MaxTime
    /\ now' = now + 1
    /\ pc' = [pc EXCEPT ![Acq] = "ta_read"]
    /\ attempt' = [attempt EXCEPT ![Acq] = 0]
    /\ ev' = [ev EXCEPT ![Acq] = EvNone]
    /\ UNCHANGED <<polVars, rec, lease, crd, socket, gate, node_startup_phase,
                   startup_credentials_provisioned, current_leadership_state,
                   is_leader, snap, slept, src, tgt, should_have>>

AcqUnchanged ==
    UNCHANGED <<polVars, rec, now, crd, pc, socket, gate, node_startup_phase,
                startup_credentials_provisioned, current_leadership_state,
                is_leader, attempt, snap, slept, src, tgt, should_have, ev>>

\* The other replica's try_acquire_leader takes or renews the lease.
OtherAcquire ==
    /\ lease.exists
    /\ lease.rv < MaxVersion
    /\ can_acquire(lease, Other, now)
    /\ lease' = patched_lease(lease, Other, now)
    /\ AcqUnchanged

\* Another client updates the lease object: the store gives it a new
\* resourceVersion, holder and renew time stay.
LeaseTouched ==
    /\ lease.exists
    /\ lease.rv < MaxVersion
    /\ lease' = [lease EXCEPT !.rv = @ + 1]
    /\ AcqUnchanged

AcqNext ==
    \/ TA_Read(Acq)
    \/ TA_Create(Acq)
    \/ TA_Patch(Acq)
    \/ \E applied \in BOOLEAN : TA_Error(Acq, applied)
    \/ AcqCall
    \/ OtherAcquire
    \/ LeaseTouched

SpecAcq == AcqInit /\ [][AcqNext]_vars

TryAcquirePcs == {"ta_read", "ta_create", "ta_reread", "ta_patch"}

\* The call of r returns in this step, with the value is_leader'[r].
Returns(r) == pc[r] \in TryAcquirePcs /\ pc'[r] = "secrets"

HeldByOther(l, r, t) ==
    l.exists /\ l.holder # NoHolder /\ l.holder # r /\ ~Expired(l, t)

\* The get_lease of r's call succeeds in this step.
ReadsLease(r) ==
    /\ pc[r] \in {"ta_read", "ta_reread"}
    /\ pc'[r] # pc[r]
    /\ ev'[r].nerr = ev[r].nerr

\* C25: when the lease that try_acquire_leader reads is held by another
\* replica and not expired, the call ends there: no patch is issued, the
\* lease stays as it is, the call returns False and the belief is False.
C25_NoPatchWhenHeldByOther ==
    [][\A r \in Replicas :
          (ReadsLease(r) /\ HeldByOther(lease, r, now)) =>
              /\ lease' = lease
              /\ ev'[r].npatch = ev[r].npatch
              /\ Returns(r)
              /\ ~is_leader'[r]
              /\ ~current_leadership_state'[r]]_vars

\* The call returned without a patch while the other replica holds an
\* unexpired lease that had been this replica's before.
C25_Witness ==
    /\ pc[Acq] = "secrets"
    /\ HeldByOther(lease, Acq, now)
    /\ lease.transitions >= 1
    /\ ev[Acq].npatch = 0
    /\ ev[Acq].nerr = 0
    /\ ~is_leader[Acq]
    /\ ~current_leadership_state[Acq]

\* C26: a call of try_acquire_leader makes at most max_retries = 3 attempts
\* (one read and at most one patch each) and then returns; when the patch
\* of every attempt was answered 409 it has issued exactly 3 patches and
\* returns False, the belief untouched.
C26_ThreeAttempts ==
    [][\A r \in Replicas :
          /\ attempt'[r] < max_retries
          /\ ev'[r].npatch <= attempt'[r] + 1
          /\ (pc[r] \in TryAcquirePcs /\ attempt[r] = max_retries - 1
                /\ ev'[r].npatch + ev'[r].nerr > ev[r].npatch + ev[r].nerr)
              => Returns(r)
          /\ (Returns(r) /\ ev'[r].nconf = max_retries) =>
                /\ ev'[r].npatch = max_retries
                /\ ~is_leader'[r]
                /\ lease' = lease
                /\ current_leadership_state'[r] = current_leadership_state[r]]_vars

\* The call returned after three patches that were all answered 409.
C26_Witness ==
    /\ pc[Acq] = "secrets"
    /\ ev[Acq].nconf = max_retries
    /\ ev[Acq].npatch = max_retries
    /\ ~is_leader[Acq]

\* C27: a call of try_acquire_leader whose store calls failed in all three
\* attempts returns False and leaves the belief as it was before the call
\* (no step of the call before its return changes the belief); within
\* try_acquire_leader the belief goes from leader to follower only in a
\* step that reads from the store a lease held by somebody else.
C27_BeliefKeptOnErrors ==
    [][\A r \in Replicas :
          /\ (Returns(r) /\ ev'[r].nerr = max_retries) =>
                /\ ~is_leader'[r]
                /\ current_leadership_state'[r] = current_leadership_state[r]
          /\ (pc[r] \in TryAcquirePcs /\ ~Returns(r)) =>
                current_leadership_state'[r] = current_leadership_state[r]
          /\ (current_leadership_state[r] /\ ~current_leadership_state'[r]) =>
                /\ ReadsLease(r)
                /\ lease.exists
                /\ lease.holder \notin {r, NoHolder}]_vars

\* The call returned False after three failed attempts and the replica
\* still believes it is the leader.
C27_Witness ==
    /\ pc[Acq] = "secrets"
    /\ ev[Acq].nerr = max_retries
    /\ ~is_leader[Acq]
    /\ current_leadership_state[Acq]

\* ------------------------------------------------------------------------
\* main() of one replica with its faults: the socket path may hold a file
\* that is no socket, a source file may be missing, old target files may
\* lie on disk, the lease may be there already, a step of an iteration may
\* raise, and a termination signal may arrive.
\* ------------------------------------------------------------------------
Main == "a"

MainLeases ==
    { NoLease, create_lease(0), patched_lease(create_lease(0), Other, 0) }

MissingKes == [SourceFiles EXCEPT !["kes"] = AbsentFile]

MainInit ==
    /\ now = 0
    /\ lease \in MainLeases
    /\ \E p \in {NoHolder, Main} :
           crd = [leaderPod |-> p, forgingEnabled |-> FALSE]
    /\ pc = [r \in Replicas |-> IF r = Main THEN "boot" ELSE "dead"]
    /\ socket = [r \in Replicas |-> "absent"]
    /\ gate = [r \in Replicas |-> TRUE]
    /\ node_startup_phase = [r \in Replicas |-> TRUE]
    /\ startup_credentials_provisioned = [r \in Replicas |-> FALSE]
    /\ current_leadership_state = [r \in Replicas |-> FALSE]
    /\ is_leader = [r \in Replicas |-> FALSE]
    /\ attempt = [r \in Replicas |-> 0]
    /\ snap = [r \in Replicas |-> NoLease]
    /\ slept = [r \in Replicas |-> 0]
    /\ \E S \in {SourceFiles, MissingKes} :
           src = [r \in Replicas |-> IF r = Main THEN S ELSE SourceFiles]
    /\ \E T \in {NoFiles, SourceFiles} :
           tgt = [r \in Replicas |-> IF r = Main THEN T ELSE NoFiles]
    /\ should_have = [r \in Replicas |-> FALSE]
    /\ ev = [r \in Replicas |-> EvNone]
    /\ rec = RecNone
    /\ ClusterManagementOff

\* Something that is not a socket appears at, or goes from, NODE_SOCKET.
PathIsFile(r) ==
    /\ socket[r] = "absent"
    /\ pc[r] \notin {"dead", "exited"}
    /\ socket' = [socket EXCEPT ![r] = "file"]
    /\ UNCHANGED <<polVars, rec, now, lease, crd, pc, gate, node_startup_phase,
                   startup_credentials_provisioned, current_leadership_state,
                   is_leader, attempt, snap, slept, src, tgt, should_have, ev>>

PathRemoved(r) ==
    /\ socket[r] = "file"
    /\ pc[r] \notin {"dead", "exited"}
    /\ socket' = [socket EXCEPT ![r] = "absent"]
    /\ UNCHANGED <<polVars, rec, now, lease, crd, pc, gate, node_startup_phase,
                   startup_credentials_provisioned, current_leadership_state,
                   is_leader, attempt, snap, slept, src, tgt, should_have, ev>>

Min(x, y) == IF x < y THEN x ELSE y

\* time.sleep(min(SLEEP_INTERVAL * 2, 30)) of the error handler (line 1219)
error_sleep == Min(SLEEP_INTERVAL * 2, ErrorSleepCap)

\* Where main() goes when a step inside the loop raises (lines 1214-1219):
\* KeyboardInterrupt breaks out to the finally block, any other Exception
\* is logged and the loop sleeps and goes on.
after_exception_breaks(kind) == "finally"

after_exception(kind) ==
    IF kind = "KeyboardInterrupt" THEN "finally" ELSE "sleep"

InIteration ==
    {"loop", "cleanup", "ff_patch", "ta_read", "ta_create", "ta_reread",
     "ta_patch", "secrets", "status", "status_patch"}

\* The step that r is about to take raises an Exception: the rest of the
\* iteration is skipped.
IterationError(r) ==
    /\ pc[r] \in InIteration
    /\ pc' = [pc EXCEPT ![r] = after_exception("Exception")]
    /\ slept' = [slept EXCEPT ![r] = SLEEP_INTERVAL - error_sleep]
    /\ snap' = [snap EXCEPT ![r] = NoLease]
    /\ ev' = [ev EXCEPT ![r].nexc = @ + 1]
    /\ UNCHANGED <<polVars, rec, now, lease, crd, socket, gate, node_startup_phase,
                   startup_credentials_provisioned, current_leadership_state,
                   is_leader, attempt, src, tgt, should_have>>

\* SIGTERM or SIGINT: signal_handler raises KeyboardInterrupt in main().
\* Before the loop nothing catches it and the process ends there; inside
\* the loop (its sleeps included) it leads to the finally block.
Terminate(r) ==
    /\ pc[r] \notin {"dead", "finally", "exited"}
    /\ pc' = [pc EXCEPT
                 ![r] = IF pc[r] \in {"boot", "wait", "cleanup0"}
                        THEN "exited"
                        ELSE after_exception("KeyboardInterrupt")]
    /\ snap' = [snap EXCEPT ![r] = NoLease]
    /\ ev' = [ev EXCEPT ![r].sig = TRUE]
    /\ UNCHANGED <<polVars, rec, now, lease, crd, socket, gate, node_startup_phase,
                   startup_credentials_provisioned, current_leadership_state,
                   is_leader, attempt, slept, src, tgt, should_have>>

\* The finally block of main() (lines 1223-1231); there is no cluster
\* manager to stop when cluster management is off.
Finally(r) ==
    /\ pc[r] = "finally"
    /\ IF current_leadership_state[r]
       THEN LET E == ensure_secrets(FALSE, TRUE, gate[r], src[r], tgt[r], {})
            IN
            /\ tgt' = [tgt EXCEPT ![r] = E.tgt]
            /\ should_have' = [should_have EXCEPT ![r] = E.desired]
            /\ ev' = [ev EXCEPT
                         ![r].nchg = IF E.changed THEN @ + 1 ELSE @,
                         ![r].nsig = IF E.sighup THEN @ + 1 ELSE @]
       ELSE UNCHANGED <<tgt, should_have, ev>>
    /\ pc' = [pc EXCEPT ![r] = "exited"]
    /\ UNCHANGED <<polVars, rec, now, lease, crd, socket, gate, node_startup_phase,
                   startup_credentials_provisioned, current_leadership_state,
                   is_leader, attempt, snap, slept, src>>

MainNext ==
    \/ Tick
    \/ SocketUp(Main)
    \/ SocketDown(Main)
    \/ PathIsFile(Main)
    \/ PathRemoved(Main)
    \/ Boot(Main)
    \/ WaitForSocket(Main)
    \/ Cleanup(Main)
    \/ Probe(Main)
    \/ ForfeitPatch(Main)
    \/ TA_Read(Main)
    \/ TA_Create(Main)
    \/ TA_Patch(Main)
    \/ Secrets(Main)
    \/ Status(Main)
    \/ StatusPatch(Main)
    \/ Wake(Main)
    \/ IterationError(Main)
    \/ Terminate(Main)
    \/ Finally(Main)

SpecMain == MainInit /\ [][MainNext]_vars

\* C21: when the process has exited after a termination signal, in
\* whatever phase and with whatever belief the signal found it, no target
\* credential file is left on disk.
C21_ShutdownLeavesNoCredentials ==
    \A r \in Replicas :
        (pc[r] = "exited" /\ ev[r].sig) => NoCredentials(r)

\* The same with a clock that goes on and a sleep that ends.
SpecMainLive ==
    /\ MainInit
    /\ [][MainNext]_vars
    /\ WF_vars(Tick)
    /\ WF_vars(Wake(Main))

\* A step of r's iteration raised an Exception in this step.
Raises(r) == ev'[r].nexc = ev[r].nexc + 1

InLoop == InIteration \cup {"sleep"}

\* C22: an Exception raised by a step of an iteration never ends the loop:
\* it is caught, the replica sleeps the doubled interval, and it comes to
\* the top of the loop again unless a termination signal arrives (or the
\* clock of the model has reached its horizon); the loop is left only on a
\* termination signal.
C22_LoopSurvivesErrors ==
    /\ [][\A r \in Replicas :
             /\ Raises(r) =>
                   /\ pc'[r] = "sleep"
                   /\ slept'[r] = SLEEP_INTERVAL - error_sleep
                   /\ ~ev'[r].sig
             /\ (pc[r] \in InLoop /\ pc'[r] \notin InLoop) => ev'[r].sig]_vars
    /\ \A r \in Replicas :
          (pc[r] = "sleep" /\ ev[r].nexc > 0)
              ~> (pc[r] = "loop" \/ ev[r].sig \/ now = MaxTime)

\* The replica is back at the top of the loop after an iteration in
\* which the status publication raised while it was the leader.
C22_Witness ==
    /\ pc[Main] = "loop"
    /\ ev[Main].nexc = 1
    /\ ~ev[Main].sig
    /\ is_leader[Main]
    /\ lease.holder = Main
    /\ crd.leaderPod = NoHolder
    /\ AllCredentials(Main)

\* An iteration on the running track has ended and r sleeps.
RunningIterationOver(r) ==
    pc[r] = "sleep" /\ ~node_startup_phase[r] /\ ~ev[r].sig

ProbeReturns(r) ==
    /\ \/ pc[r] \in {"wait", "loop"} /\ pc'[r] \notin {pc[r], "ff_patch"}
       \/ pc[r] = "ff_patch" /\ pc'[r] # "ff_patch"
    /\ ~Raises(r)
    /\ ev'[r].sig = ev[r].sig

InStartup(r) ==
    \/ socket[r] = "absent"
    \/ node_startup_phase[r] /\ socket[r] # "socket"

\* A step of r that is neither a raised exception nor a signal.
Proceeds(r) ==
    pc'[r] # pc[r] /\ ~Raises(r) /\ ev'[r].sig = ev[r].sig

\* C29: an iteration whose probe reports the startup phase (the socket
\* path is missing, or has not held a socket yet) goes from the probe, and
\* from the forfeit when there is one, straight to the sleep: it issues no
\* lease request and sends no SIGHUP, and leaves on disk every credential
\* that has a source; the lease is taken or renewed only by a replica
\* whose probe found the node running.
C29_StartupIterationIsPassive ==
    [][\A r \in Replicas :
          /\ (pc[r] = "loop" /\ InStartup(r) /\ Proceeds(r)) =>
                /\ pc'[r] \in {"sleep", "ff_patch"}
                /\ lease' = lease
                /\ ev'[r].npatch = 0
                /\ ev'[r].nsig = 0
                /\ pc'[r] = "sleep" =>
                      /\ node_startup_phase'[r]
                      /\ \A f \in Files :
                            src[r][f].exists => tgt'[r][f].exists
          /\ (pc[r] = "ff_patch" /\ Proceeds(r)) =>
                /\ pc'[r] = "sleep"
                /\ lease' = lease
                /\ ev'[r].npatch = 0
                /\ ev'[r].nsig = 0
                /\ node_startup_phase'[r]
                /\ \A f \in Files : src[r][f].exists => tgt'[r][f].exists
          /\ (lease' # lease /\ lease'.holder = r) =>
                ~node_startup_phase[r]]_vars

\* A startup iteration has ended while the socket is missing and the
\* lease of the other replica has expired: the replica did not take it.
C29_Witness ==
    /\ pc[Main] = "sleep"
    /\ slept[Main] = 0
    /\ ev[Main].nexc = 0
    /\ node_startup_phase[Main]
    /\ socket[Main] = "absent"
    /\ lease.holder = Other
    /\ Expired(lease, now)
    /\ startup_credentials_provisioned[Main]
    /\ AllCredentials(Main)
    /\ ev[Main].nsig = 0

\* C30: startup_cleanup with a lease held by another replica removes every
\* target file and sends one SIGHUP exactly when a file was there to
\* remove; with a lease held by the caller, a vacant lease or no lease it
\* removes nothing and sends nothing.  It never writes the lease.
C30_StartupCleanup ==
    [][\A r \in Replicas :
          (pc[r] \in {"cleanup0", "cleanup"} /\ Proceeds(r)) =>
              /\ lease' = lease
              /\ IF lease.exists /\ lease.holder \notin {NoHolder, r}
                 THEN /\ \A f \in Files : ~tgt'[r][f].exists
                      /\ ev'[r].nsig =
                            ev[r].nsig + (IF HasCredentials(r) THEN 1 ELSE 0)
                 ELSE /\ tgt'[r] = tgt[r]
                      /\ ev'[r].nsig = ev[r].nsig]_vars

\* The cleanup of the first iteration after the startup phase has removed
\* the startup credentials and signalled, the other replica holding the
\* lease.
C30_Witness ==
    /\ pc[Main] = "ta_read"
    /\ attempt[Main] = 0
    /\ ev[Main].npatch = 0
    /\ ev[Main].nchg = 1
    /\ ev[Main].nsig = 1
    /\ HeldByOther(lease, Main, now)
    /\ NoCredentials(Main)

\* ------------------------------------------------------------------------
\* main() of one replica whose store calls inside try_acquire_leader may
\* fail as well.
\* ------------------------------------------------------------------------
\* update_leader_status: the status read of a non-leader or the status
\* patch answers with an ApiException; it is logged and nothing is written
\* (lines 463-467, 498-499).
StatusFails(r) ==
    /\ pc[r] \in {"status", "status_patch"}
    /\ pc' = [pc EXCEPT ![r] = "sleep"]
    /\ slept' = [slept EXCEPT ![r] = 0]
    /\ ev' = [ev EXCEPT ![r].sfail = TRUE]
    /\ UNCHANGED <<polVars, rec, now, lease, crd, socket, gate, node_startup_phase,
                   startup_credentials_provisioned, current_leadership_state,
                   is_leader, attempt, snap, src, tgt, should_have>>

StoreNext ==
    \/ MainNext
    \/ \E applied \in BOOLEAN : TA_Error(Main, applied)
    \/ StatusFails(Main)

SpecStore == MainInit /\ [][StoreNext]_vars

ExpiresInPast ==
    /\ EffOverride.expiresAt.kind \in {"rfc3339", "naive"}
    /\ EffOverride.expiresAt.t < now

\* The published state and priority are the override's, where it sets them,
\* and the spec's otherwise, with no health penalty.
OverrideApplied ==
    /\ out.status.effectiveState =
           (IF EffOverride.hasForceState
            THEN EffOverride.forceState ELSE EffSpec.forgeState)
    /\ out.status.effectivePriority =
           (IF EffOverride.hasForcePriority
            THEN EffOverride.forcePriority ELSE EffSpec.priority)

\* The published state and priority are those of the same spec without the
\* override.
OverrideIgnored ==
    LET plain == calculate_effective_state_and_priority(
                     [EffSpec EXCEPT !.override = NoOverride], EffFailures, now)
    IN /\ out.status.effectiveState = plain.state
       /\ out.status.effectivePriority = plain.priority
       /\ out.status.reason = plain.reason

\* C32 (override expiry): an override with enabled = true is ignored if and
\* only if its expiresAt lies in the past; in every other case forceState
\* and forcePriority, when set, replace the spec values and no health
\* penalty is added.
C32_IgnoredIffExpired ==
    (out.op = "status" /\ EffOverride.enabled) =>
        IF ExpiresInPast THEN OverrideIgnored ELSE OverrideApplied


\* ------------------------------------------------------------------------
\* The lease a tenant's try_acquire_leader works on (SpecTenancy).
\* ------------------------------------------------------------------------
\* C37 (lease name from tenancy): when LEASE_NAME is not configured, the
\* lease that try_acquire_leader reads and patches is the one whose name is
\* derived from the tenancy key, so two tenants of different (network, pool)
\* in the same namespace never work on the same lease record.
C37_LeaseNameFromTenancy ==
    \A i, j \in Tenants :
        (/\ tenancy[i].started /\ tenancy[j].started
         /\ tenancy[i].env = Unset /\ tenancy[j].env = Unset) =>
            /\ tenancy[i].LEASE_NAME = get_lease_name(tenancy[i].key)
            /\ (\/ tenancy[i].key.network # tenancy[j].key.network
                \/ tenancy[i].key.pool # tenancy[j].key.pool)
                   => tenancy[i].LEASE_NAME # tenancy[j].LEASE_NAME


\* ------------------------------------------------------------------------
\* The published forging state against the reconcile (Spec).
\* ------------------------------------------------------------------------
\* The step in which r, holding the lease, patches the published status.
LeaderPublishes(r) ==
    /\ pc[r] = "status" /\ pc'[r] = "sleep"
    /\ is_leader[r]

\* C31 (published forging state): the forgingEnabled a leader publishes
\* equals the should_have_credentials its ensure_secrets of the same
\* iteration worked with, also when the gate changes during the iteration.
C31_PublishedEqualsReconciled ==
    [][\A r \in Replicas :
          LeaderPublishes(r) =>
              /\ crd'.leaderPod = r
              /\ crd'.forgingEnabled = should_have[r]]_vars


\* ------------------------------------------------------------------------
\* Who writes what of the policy object (SpecPol).
\* ------------------------------------------------------------------------
\* A step of the administrator: no replica moves, caches, probes or patches.
AdminStep ==
    /\ pc' = pc /\ cache' = cache /\ polw' = polw
    /\ last_health_check' = last_health_check

\* A step in which a replica's start() creates the policy object.
Creates ==
    /\ ~pol.present /\ pol' = create_cluster_crd
    /\ \E r \in Replicas : pc[r] = "boot" /\ pc'[r] = "loop" /\ enabled[r]

\* C36 (the spec is the administrator's): no step of a replica changes the
\* spec of an existing policy object or removes the object; a replica's
\* write to an existing object changes its status only, and the object is
\* created, with the default spec, only when start() finds it absent.
C36_SpecNeverChanged ==
    [][~AdminStep =>
          IF pol.present
          THEN pol'.present /\ pol'.spec = pol.spec
          ELSE pol' = pol \/ Creates]_vars

C36_Witness ==
    /\ pol.present
    /\ pol.spec.forgeState = "Disabled"
    /\ polw.task = "watch"
    /\ pol.status.effectiveState = "Disabled"
    /\ \A r \in Replicas : pc[r] # "boot"


\* ------------------------------------------------------------------------
\* The watch handlers come to rest (SpecPolLive).
\* ------------------------------------------------------------------------
\* The threads of cluster_manager.py and the control loops keep running.
SpecPolLive ==
    /\ SpecPol
    /\ WF_vars(PolTick)
    /\ \A r \in Replicas :
           /\ WF_vars(PolStart(r))
           /\ WF_vars(PolIteration(r))
           /\ WF_vars(PolWatch(r))

\* A step in which the watch handler of r patches the status, and a step in
\* which the administrator changes or deletes the object.
WatchPatch(r) == polw' # polw /\ polw' = PatchRecord(r, "watch")
AdminChange == AdminStep /\ pol' # pol

\* C39 (watch-handler quiescence): the watch handler patches the status
\* only for an event whose spec differs from the last-known spec or whose
\* status lacks effectiveState; and unless the administrator keeps changing
\* the object, the watch handlers of all replicas eventually stop patching.
C39_WatchQuiescence ==
    /\ [][\A r \in Replicas :
             WatchPatch(r) =>
                 \/ ~cache[r].present
                 \/ cache[r].spec # pol.spec
                 \/ pol.status.effectiveState = ""]_vars
    /\ ([]<><<\E r \in Replicas : WatchPatch(r)>>_vars => []<><<AdminChange>>_vars)

C39_Witness ==
    /\ pol.present
    /\ polw.task = "loop"
    /\ pol.status.activeLeader \in Replicas
    /\ \A r \in Replicas :
           /\ enabled[r] /\ ~unseen[r]
           /\ cache[r].present
           /\ cache[r].status = pol.status
           /\ cache[r].spec = pol.spec


\* ------------------------------------------------------------------------
\* The gate evaluated while the watch thread replaces the cache: replica
\* Eff calls should_allow_forging, which reads forgeState and priority from
\* the cache and then, inside _calculate_effective_state_and_priority, the
\* override from the cache again.
\* ------------------------------------------------------------------------
\* The override the administrator may set: it forces a state until MaxTime.
Forcing(fs) ==
    [enabled |-> TRUE, expiresAt |-> [kind |-> "rfc3339", t |-> MaxTime],
     hasForceState |-> TRUE, forceState |-> fs,
     hasForcePriority |-> FALSE, forcePriority |-> 0]

SnapSpecs ==
    [forgeState : ForgeStates, priority : {10},
     override : {NoOverride, Forcing("Enabled"), Forcing("Disabled")},
     failureThreshold : {3}]

SnapInit ==
    /\ ProcessInit
    /\ pol = NoCache
    /\ \E ps \in SnapSpecs :
           cache = [r \in Replicas |->
                       IF r = Eff
                       THEN [present |-> TRUE, spec |-> ps, status |-> NoStatus]
                       ELSE NoCache]
    /\ enabled = [r \in Replicas |-> r = Eff]
    /\ \E n \in 0..MaxFailures :
           health_failures = [r \in Replicas |-> IF r = Eff THEN n ELSE 0]
    /\ last_health_check = [r \in Replicas |-> NoCheck]
    /\ unseen = [r \in Replicas |-> FALSE]
    /\ polw = NoWrite
    /\ out = NoOut
    /\ tenancy = NoTenancy
    /\ ManagerIdle
    /\ CopyIdle

SnapUnchanged ==
    UNCHANGED <<lease, crd, pc, socket, gate, node_startup_phase,
                startup_credentials_provisioned, current_leadership_state,
                is_leader, attempt, snap, slept, src, tgt, should_have, ev,
                rec, pol, health_failures, last_health_check, enabled,
                unseen, polw, tenancy, health_status, shutdown_event,
                watch_thread, health_thread, copyVars>>

\* should_allow_forging up to the call of
\* _calculate_effective_state_and_priority: spec, forge_state and
\* base_priority are read from the cache.
GateRead ==
    /\ frame.pc = "idle"
    /\ frame' = [pc |-> "calc",
                 forge_state |-> cache[Eff].spec.forgeState,
                 base_priority |-> cache[Eff].spec.priority,
                 first |-> cache[Eff].spec, second |-> DefaultSpec]
    /\ out' = NoOut
    /\ UNCHANGED <<now, cache>>
    /\ SnapUnchanged

\* _calculate_effective_state_and_priority reads the override from the
\* cache as it is now, and should_allow_forging returns.
GateCalc ==
    /\ frame.pc = "calc"
    /\ LET eff == effective_state_and_priority(
                      frame.forge_state, frame.base_priority,
                      cache[Eff].spec.override, health_failures[Eff], now)
       IN  out' = [op |-> "should_allow_forging",
                   allow |-> eff.state # "Disabled",
                   status |-> [NoStatus EXCEPT
                                  !.effectiveState = eff.state,
                                  !.effectivePriority = eff.priority,
                                  !.reason = eff.reason]]
    /\ frame' = [frame EXCEPT !.pc = "idle", !.second = cache[Eff].spec]
    /\ UNCHANGED <<now, cache>>
    /\ SnapUnchanged

\* The watch thread handles an event: _handle_cluster_crd_change replaces
\* the cache by the event's object.
SnapWatch(ps) ==
    /\ ps # cache[Eff].spec
    /\ cache' = [cache EXCEPT ![Eff].spec = ps]
    /\ UNCHANGED <<now, frame, out>>
    /\ SnapUnchanged

\* Time passes between two evaluations.
SnapTick ==
    /\ frame.pc = "idle"
    /\ now < MaxTime
    /\ now' = now + 1
    /\ out' = NoOut
    /\ UNCHANGED <<frame, cache>>
    /\ SnapUnchanged

SnapNext ==
    \/ GateRead
    \/ GateCalc
    \/ SnapTick
    \/ \E ps \in SnapSpecs : SnapWatch(ps)

SpecSnap == SnapInit /\ [][SnapNext]_vars

\* What one snapshot s, the failure counter and the time determine.
OfSnapshot(s) ==
    LET eff == calculate_effective_state_and_priority(s, health_failures[Eff], now)
    IN  /\ out.status.effectiveState = eff.state
        /\ out.status.effectivePriority = eff.priority
        /\ out.status.reason = eff.reason
        /\ out.allow = should_allow_forging(
                           TRUE, [present |-> TRUE, spec |-> s, status |-> NoStatus],
                           health_failures[Eff], now)

\* C33 (determinism of the gate): the result of an evaluation is what one
\* policy snapshot, the failure counter and the current time determine,
\* where the snapshot is one the cache held during the evaluation; it never
\* combines forgeState and priority of one snapshot with the override of
\* another.
C33_OneSnapshot ==
    (out.op = "should_allow_forging" /\ frame.pc = "idle") =>
        (OfSnapshot(frame.first) \/ OfSnapshot(frame.second))


\* ------------------------------------------------------------------------
\* The threads of one ClusterForgeManager: replica Eff after start(), with
\* the control loop publishing the status, the watch thread, the health
\* thread, and stop().
\* ------------------------------------------------------------------------
\* _update_health_status(healthy, message): the healthStatus it patches.
update_health_status(healthy, last, failures) ==
    [present |-> TRUE, healthy |-> healthy, consecutiveFailures |-> failures,
     lastProbeTime |-> last,
     message |-> IF healthy THEN "HTTP 200" ELSE "HTTP 503"]

\* _build_comprehensive_status_update: the healthStatus key it adds to the
\* patch once a health check has been made; current is the stored value,
\* which a patch without the key leaves as it is.
comprehensive_health_status(last, failures, current) ==
    IF last # NoCheck
    THEN [present |-> TRUE, healthy |-> (failures = 0),
          consecutiveFailures |-> failures, lastProbeTime |-> last,
          message |-> IF failures > 0 THEN "Health checks: consecutive failures"
                      ELSE "All health checks passing"]
    ELSE current

watch_loop_continues_always(shutdown) == TRUE

\* `while not self._shutdown_event.is_set()` of _watch_cluster_crd.
watch_loop_continues(shutdown) == ~shutdown

MgrInit ==
    /\ ProcessInit
    /\ \E ps \in AdminSpecs :
           /\ pol = [present |-> TRUE, spec |-> ps, status |-> NoStatus]
           /\ cache = [r \in Replicas |-> IF r = Eff THEN pol ELSE NoCache]
    /\ enabled = [r \in Replicas |-> r = Eff]
    /\ health_failures = [r \in Replicas |-> 0]
    /\ last_health_check = [r \in Replicas |-> NoCheck]
    /\ unseen = [r \in Replicas |-> r = Eff]
    /\ polw = NoWrite
    /\ out = NoOut
    /\ tenancy = NoTenancy
    /\ frame = NoFrame
    /\ health_status = NoHealthStatus
    /\ shutdown_event = [r \in Replicas |-> FALSE]
    /\ watch_thread = [r \in Replicas |-> IF r = Eff THEN "stream" ELSE "off"]
    /\ \E probing \in BOOLEAN :
           health_thread = [r \in Replicas |->
                               IF r = Eff /\ probing THEN "check" ELSE "off"]
    /\ CopyIdle

MgrUnchanged ==
    UNCHANGED <<lease, crd, pc, socket, gate, node_startup_phase,
                startup_credentials_provisioned, current_leadership_state,
                is_leader, attempt, snap, slept, src, tgt, should_have, ev,
                rec, enabled, out, tenancy, frame, copyVars>>

\* Time passes.
MgrTick ==
    /\ now < MaxTime
    /\ now' = now + 1
    /\ UNCHANGED <<pol, cache, health_failures, last_health_check, unseen,
                   polw, health_status, shutdown_event, watch_thread,
                   health_thread>>
    /\ MgrUnchanged

\* stop(): the shutdown event is set, then the threads are joined for at
\* most 5 seconds each.
MgrStop ==
    /\ ~shutdown_event[Eff]
    /\ shutdown_event' = [shutdown_event EXCEPT ![Eff] = TRUE]
    /\ UNCHANGED <<now, pol, cache, health_failures, last_health_check,
                   unseen, polw, health_status, watch_thread, health_thread>>
    /\ MgrUnchanged

\* The control loop, which runs until main() calls stop(), publishes the
\* status: update_leader_status(pod_name, is_leader) patches what
\* _build_comprehensive_status_update returns.
LoopStatus(leader) ==
    /\ ~shutdown_event[Eff]
    /\ pol' = [pol EXCEPT
                  !.status = build_comprehensive_status_update(
                                 cache[Eff], health_failures[Eff], now, Eff, leader)]
    /\ health_status' = comprehensive_health_status(
                            last_health_check[Eff], health_failures[Eff],
                            health_status)
    /\ polw' = PatchRecord(Eff, "loop")
    /\ unseen' = [unseen EXCEPT ![Eff] = watch_thread[Eff] = "stream"]
    /\ UNCHANGED <<now, cache, health_failures, last_health_check,
                   shutdown_event, watch_thread, health_thread>>
    /\ MgrUnchanged

\* The stream of _watch_cluster_crd yields an event: with the shutdown
\* event set the thread breaks out of the stream and tests its loop
\* condition, otherwise _handle_cluster_crd_change handles the object.
MgrWatchEvent ==
    /\ watch_thread[Eff] = "stream" /\ unseen[Eff]
    /\ IF shutdown_event[Eff]
       THEN /\ watch_thread' =
                  [watch_thread EXCEPT
                      ![Eff] = IF watch_loop_continues(shutdown_event[Eff])
                               THEN "stream" ELSE "stopped"]
            /\ unseen' = [unseen EXCEPT ![Eff] = FALSE]
            /\ UNCHANGED <<pol, cache, polw, health_status>>
       ELSE LET obj == pol
                current_leader == obj.status.activeLeader
                st == build_comprehensive_status_update(
                          obj, health_failures[Eff], now, current_leader,
                          current_leader = Eff)
            IN  /\ cache' = [cache EXCEPT ![Eff] = obj]
                /\ watch_thread' = watch_thread
                /\ IF spec_changed(cache[Eff], obj) \/ obj.status.effectiveState = ""
                   THEN /\ pol' = [pol EXCEPT !.status = st]
                        /\ health_status' = comprehensive_health_status(
                                                last_health_check[Eff],
                                                health_failures[Eff], health_status)
                        /\ polw' = PatchRecord(Eff, "watch")
                        /\ unseen' = [unseen EXCEPT ![Eff] = st # pol.status]
                   ELSE /\ unseen' = [unseen EXCEPT ![Eff] = FALSE]
                        /\ UNCHANGED <<pol, polw, health_status>>
    /\ UNCHANGED <<now, health_failures, last_health_check, shutdown_event,
                   health_thread>>
    /\ MgrUnchanged

\* The stream request ends (timeout_seconds=30, or an error and the 5
\* second sleep): the thread tests its loop condition and opens the next
\* stream or returns.
MgrStreamEnds ==
    /\ watch_thread[Eff] = "stream" /\ ~unseen[Eff]
    /\ watch_thread' =
           [watch_thread EXCEPT
               ![Eff] = IF watch_loop_continues(shutdown_event[Eff])
                        THEN "stream" ELSE "stopped"]
    /\ UNCHANGED <<now, pol, cache, health_failures, last_health_check,
                   unseen, polw, health_status, shutdown_event, health_thread>>
    /\ MgrUnchanged

\* _perform_health_check: the counter and the time of the check, then
\* _update_health_status patches status.healthStatus; the thread goes to
\* wait on the shutdown event.
MgrHealthCheck(healthy) ==
    /\ health_thread[Eff] = "check"
    /\ healthy \/ health_failures[Eff] < MaxFailures
    /\ LET failures == IF healthy THEN 0 ELSE health_failures[Eff] + 1
       IN  /\ health_failures' = [health_failures EXCEPT ![Eff] = failures]
           /\ last_health_check' = [last_health_check EXCEPT ![Eff] = now]
           /\ health_status' = update_health_status(healthy, now, failures)
    /\ polw' = PatchRecord(Eff, "health")
    /\ unseen' = [unseen EXCEPT ![Eff] = watch_thread[Eff] = "stream"]
    /\ health_thread' = [health_thread EXCEPT ![Eff] = "wait"]
    /\ UNCHANGED <<now, pol, cache, shutdown_event, watch_thread>>
    /\ MgrUnchanged

\* self._shutdown_event.wait(HEALTH_CHECK_INTERVAL) returns: the thread
\* leaves its loop when the event is set and checks again otherwise.
MgrHealthWake ==
    /\ health_thread[Eff] = "wait"
    /\ health_thread' = [health_thread EXCEPT
                            ![Eff] = IF shutdown_event[Eff] THEN "stopped"
                                     ELSE "check"]
    /\ UNCHANGED <<now, pol, cache, health_failures, last_health_check,
                   unseen, polw, health_status, shutdown_event, watch_thread>>
    /\ MgrUnchanged

MgrNext ==
    \/ MgrTick
    \/ MgrStop
    \/ \E leader \in BOOLEAN : LoopStatus(leader)
    \/ MgrWatchEvent
    \/ MgrStreamEnds
    \/ \E healthy \in BOOLEAN : MgrHealthCheck(healthy)
    \/ MgrHealthWake

\* A stream request and a wait on the event are bounded, so each thread
\* keeps taking its steps.
SpecMgr ==
    /\ MgrInit /\ [][MgrNext]_vars
    /\ WF_vars(MgrWatchEvent)
    /\ WF_vars(MgrStreamEnds)
    /\ WF_vars(\E healthy \in BOOLEAN : MgrHealthCheck(healthy))
    /\ WF_vars(MgrHealthWake)

\* A step in which the given task of Eff patches the status.
PatchBy(task) == polw' # polw /\ polw' = PatchRecord(Eff, task)

\* C34 (disjoint status fields): a status patch of the control loop leaves
\* status.healthStatus as the prober last wrote it, and a status patch of
\* the prober leaves every other status field as it was.
C34_DisjointStatusFields ==
    [][/\ PatchBy("loop") => health_status' = health_status
       /\ PatchBy("health") => pol'.status = pol.status]_vars


\* C38 (the threads stop): once stop() has set the shutdown event, the
\* watch thread and the health thread each eventually leave their loops and
\* return, a returned thread stays returned, and no status patch of a
\* thread's task is issued after that thread has returned.
C38_ThreadsStop ==
    /\ [][/\ watch_thread[Eff] = "stopped" =>
                 (watch_thread'[Eff] = "stopped" /\ ~PatchBy("watch"))
          /\ health_thread[Eff] = "stopped" =>
                 (health_thread'[Eff] = "stopped" /\ ~PatchBy("health"))]_vars
    /\ shutdown_event[Eff] ~>
           (/\ watch_thread[Eff] = "stopped"
            /\ health_thread[Eff] \in {"stopped", "off"})

C38_Witness ==
    /\ shutdown_event[Eff]
    /\ watch_thread[Eff] = "stopped"
    /\ health_thread[Eff] = "stopped"
    /\ health_status.present
    /\ pol.status.effectiveState # ""


\* ------------------------------------------------------------------------
\* The credential files as a reader of the target paths sees them while
\* ensure_secrets(True) provisions: copy_secret in the steps the operating
\* system takes.  bytes is "" for an empty file, "old" for the complete
\* previous file, "partial" for a prefix of the source, "new" for the
\* complete source; mode is the permission bits.
\* ------------------------------------------------------------------------
credential_files == <<"kes", "vrf", "opcert">>

\* stat.S_IRUSR | stat.S_IWUSR, 0o600.
OwnerReadWrite == 384

\* The permission bits of a source file (0o400, 0o600, 0o644) and those a
\* new file gets from open() under the process umask (0o600, 0o644).
SourceModes == {256, 384, 420}
CreateModes == {384, 420}

OldFile == [exists |-> TRUE, bytes |-> "old", mode |-> OwnerReadWrite]
NewFile == [exists |-> TRUE, bytes |-> "new", mode |-> OwnerReadWrite]

CopyInit ==
    /\ ProcessInit
    /\ ClusterManagementOffExceptCopy
    /\ copy_pc = [i |-> 1, step |-> "test"]
    /\ dest \in [Files -> {NoDest, OldFile, NewFile}]

CopyUnchanged ==
    UNCHANGED <<now, lease, crd, pc, socket, gate, node_startup_phase,
                startup_credentials_provisioned, current_leadership_state,
                is_leader, attempt, snap, slept, src, tgt, should_have, ev,
                rec, pol, cache, health_failures, last_health_check, enabled,
                unseen, polw, out, tenancy, mgrVars>>

Copying(step) ==
    /\ copy_pc.i \in 1..Len(credential_files)
    /\ copy_pc.step = step

CopyFile == credential_files[copy_pc.i]

NextFile == [i |-> copy_pc.i + 1, step |-> "test"]

\* ensure_secrets: `if not os.path.exists(dest) or not files_identical(src,
\* dest)` for the next pair of credential_files.
CopyTest ==
    /\ Copying("test")
    /\ copy_pc' = IF ~dest[CopyFile].exists \/ dest[CopyFile].bytes # "new"
                  THEN [copy_pc EXCEPT !.step = "open"]
                  ELSE NextFile
    /\ dest' = dest
    /\ CopyUnchanged

\* shutil.copy2 opens dest for writing: an existing file is truncated and
\* keeps its mode, a missing one is created with the mode the umask leaves.
CopyOpen(m) ==
    /\ Copying("open")
    /\ dest' = [dest EXCEPT
                   ![CopyFile] = IF @.exists THEN [@ EXCEPT !.bytes = ""]
                                 ELSE [exists |-> TRUE, bytes |-> "", mode |-> m]]
    /\ copy_pc' = [copy_pc EXCEPT !.step = "write"]
    /\ CopyUnchanged

\* shutil.copy2 writes the next part of the source.
CopyWrite ==
    /\ Copying("write")
    /\ dest' = [dest EXCEPT
                   ![CopyFile].bytes = IF @ = "" THEN "partial" ELSE "new"]
    /\ copy_pc' = [copy_pc EXCEPT
                      !.step = IF dest[CopyFile].bytes = "" THEN "write"
                               ELSE "copystat"]
    /\ CopyUnchanged

\* shutil.copy2 copies the source's permission bits and times (copystat).
CopyStat(m) ==
    /\ Copying("copystat")
    /\ dest' = [dest EXCEPT ![CopyFile].mode = m]
    /\ copy_pc' = [copy_pc EXCEPT !.step = "chmod"]
    /\ CopyUnchanged

\* os.chmod(dest, stat.S_IRUSR | stat.S_IWUSR), and copy_secret returns.
CopyChmod ==
    /\ Copying("chmod")
    /\ dest' = [dest EXCEPT ![CopyFile].mode = OwnerReadWrite]
    /\ copy_pc' = NextFile
    /\ CopyUnchanged

\* A call of copy_secret raises (the disk is full, the target directory is
\* read-only): the exception is logged and copy_secret returns False.
CopyRaises ==
    /\ \E step \in {"open", "write", "copystat", "chmod"} : Copying(step)
    /\ copy_pc' = NextFile
    /\ dest' = dest
    /\ CopyUnchanged

CopyNext ==
    \/ CopyTest
    \/ \E m \in CreateModes : CopyOpen(m)
    \/ CopyWrite
    \/ \E m \in SourceModes : CopyStat(m)
    \/ CopyChmod
    \/ CopyRaises

SpecCopy == CopyInit /\ [][CopyNext]_vars

\* C35 (atomic credential write): at every moment a reader finds at each
\* target path no file, the complete previous file, or the complete new
\* file with mode 0600; never a partially written file and never wider
\* permissions.
C35_AtomicWrite ==
    \A f \in Files :
        \/ ~dest[f].exists
        \/ dest[f] = OldFile
        \/ dest[f] = NewFile

====
